---- MODULE Spec2Model ----
(***************************************************************************)
(* ixfeed: feed / sitemap watcher that submits new and modified URLs to    *)
(* IndexNow.  The model covers the per-source orchestration of             *)
(* src/main.rs (process_source and the four run handlers), the persisted   *)
(* store of src/db.rs (submitted_urls rows, first_run_completed flag),     *)
(* the batch submission of src/submit.rs, the loop of run_submission over  *)
(* several sources and the recursive traversal of src/sitemap.rs.          *)
(*                                                                         *)
(* Specifications: Spec (runs of one source), SpecBatch (one               *)
(* submit_in_batches call), SpecMulti (one run over several sources),      *)
(* SpecSitemap (first run of a sitemap source, call by call), SpecDb (the  *)
(* database operations of src/db.rs on the table row by row), SpecDry (one *)
(* --dry-run over several sources), SpecParse (the traversal over          *)
(* documents whose element texts are followed as written).                 *)
(***************************************************************************)
EXTENDS Integers, Sequences, FiniteSets, Bags, TLC

\* ------------------------------------------------------------------ bounds
\* Longest fetched entry list explored by the run model.
MaxEntries == 3
\* Longest classified list handed to submit_in_batches in SpecBatch.
MaxBatchLen == 5
\* Largest source id in the multi-source run model.
NumSources == 2
\* Longest fetched entry list explored by the multi-source run model.
MaxMultiEntries == 1
\* Most <sitemap> blocks in a sitemap index document.
MaxChildren == 2
\* Most <url> blocks in a sitemap document.
MaxUrlBlocks == 1
\* Most <url> blocks in a document whose element texts are followed as
\* written (padded, blank or missing).
MaxRawBlocks == 2

\* pub const MAX_BATCH_SIZE: usize = 10_000, scaled down so that a list of
\* MaxEntries entries spans more than one batch.
MAX_BATCH_SIZE == 2

\* const MAX_DEPTH: usize = 10 of fetch_sitemap_recursive, scaled down so
\* that a cyclic index of MaxChildren children is traversed in few calls.
MAX_DEPTH == 2

\* ------------------------------------------------------------- data model
\* UrlEntry.url values.
Urls == {"u1", "u2"}
\* Some(date) values of UrlEntry.date / submitted_urls.last_modified.
Dates == {"d1", "d2"}
\* Option::None of UrlEntry.date, NULL of submitted_urls.last_modified.
None == "none"
\* HashMap::get returning None: no submitted_urls row for (source_id, url).
NoRow == "norow"
Markers == Dates \cup {None}
\* struct UrlEntry { url, date }
UrlEntry == [url : Urls, date : Markers]
\* rows of table sources (ids)
SourceIds == {1}
\* sources.source_type
SourceTypes == {"feed", "sitemap"}
\* response statuses the IndexNow endpoint may answer with
Statuses == {200, 202, 204, 400, 401, 403, 422, 429, 500}

\* enum SubmitReason { New, Modified { date } }
ReasonNew == [kind |-> "New", date |-> None]
ReasonModified(d) == [kind |-> "Modified", date |-> d]
SubmitReason == {ReasonNew} \cup {ReasonModified(d) : d \in Dates}
\* struct SubmitEntry { url, reason }
SubmitEntry == [url : Urls, reason : SubmitReason]

SeqsUpTo(S, n) == UNION {[1..k -> S] : k \in 0..n}
NoDupUrls(es) == \A i, j \in 1..Len(es) : es[i].url = es[j].url => i = j

\* Source fields used by the submission (api_key, host, searchengine).
Cfg == [api_key |-> "key1", host |-> "host1", searchengine |-> "api.indexnow.org"]

VARIABLES
    source_type,          \* sources.source_type, per source id
    first_run_completed,  \* sources.first_run_completed, per source id
    submitted_urls,       \* table submitted_urls: source id -> url -> last_modified | NoRow
    pc,                   \* position of the run: idle, confirm, submit, done, batch, returned
    cur,                  \* source.id of the process_source call in progress
    unattended,           \* process_source's unattended argument
    entries,              \* entries fetched by process_source
    is_first_run,         \* local is_first_run of process_source
    stored_urls,          \* local stored_urls of handle_subsequent_run*
    to_submit,            \* submit_entries / to_submit handed to submit_in_batches
    batch_idx,            \* chunks of submit_in_batches already sent
    requests,             \* HTTP requests issued by the submission call, in order
    last_status,          \* status of the last response received (0: none)
    answer,               \* the Confirm prompt's answer in this run: none, yes, no
    result,               \* Result of the run / call: running, Ok, or the Err message
    rerun,                \* this run repeats the previous, successful and applied, run's entries
    source_cfg,           \* sources.api_key / host / searchengine, per source id
    entry_filter,         \* the -e argument of the run: Option<&[i64]>
    sources,              \* run_submission's local sources: ids returned by get_sources_to_process
    idx,                  \* iterations of run_submission's `for` loop started so far
    run_log,              \* ids of the sources whose process_source call has started, in order
    web,                  \* what a GET of each sitemap reference answers
    sm_stack,             \* pending fetch_sitemap_recursive calls (url, depth), next call first
    sm_entries,           \* fetch_sitemap_urls' local entries
    sm_seen,              \* fetch_sitemap_urls' local seen_urls
    sm_calls,             \* fetch_sitemap_recursive calls made so far: (url, depth, fetch | skip)
    sm_state,             \* fetch_sitemap_urls: idle, running, Ok, Err
    sm_error,             \* the Err returned by fetch_sitemap_urls: what its message names
    submitted_urls_rows,  \* table submitted_urls row by row: bag of (source_id, url, last_modified)
    sqlite_sequence,      \* AUTOINCREMENT of sources.id: the largest id ever given
    last_write,           \* what the last statement did to submitted_urls: none, insert, update, delete
    dry_run,              \* Cli::dry_run: the run is run_dry_run
    new_urls,             \* dry_run_source's local new_urls
    modified_urls,        \* dry_run_source's local modified_urls
    write_failed          \* a database write of the run has returned Err

loopvars == <<entry_filter, sources, idx, run_log>>
smvars == <<web, sm_stack, sm_entries, sm_seen, sm_calls, sm_state, sm_error>>
dbvars == <<submitted_urls_rows, sqlite_sequence, last_write>>
dryvars == <<dry_run, new_urls, modified_urls>>
extras == <<dbvars, dryvars, write_failed>>
others == <<source_cfg, loopvars, smvars, extras>>

vars == <<source_type, first_run_completed, submitted_urls, pc, cur, unattended,
          entries, is_first_run, stored_urls, to_submit, batch_idx, requests,
          last_status, answer, result, rerun, source_cfg, entry_filter, sources,
          idx, run_log, web, sm_stack, sm_entries, sm_seen, sm_calls, sm_state, sm_error,
          submitted_urls_rows, sqlite_sequence, last_write, dry_run, new_urls, modified_urls,
          write_failed>>

store == <<source_type, first_run_completed, submitted_urls>>

EmptyMap == [u \in Urls |-> NoRow]

\* ------------------------------------------------------------------ db.rs
\* SELECT first_run_completed ...: Ok(1) => false, _ => true
is_source_first_run(s) == ~first_run_completed[s]

\* mark_source_first_run_completed whose UPDATE changes no row
mark_source_first_run_completed_noop(flags, s) == flags

\* UPDATE sources SET first_run_completed = 1 WHERE id = ?1
mark_source_first_run_completed(flags, s) == [flags EXCEPT ![s] = TRUE]

\* SELECT url, last_modified FROM submitted_urls WHERE source_id = ?1
get_urls_with_dates_for_source(s) == submitted_urls[s]

\* INSERT ... ON CONFLICT(source_id, url) DO UPDATE SET last_modified = ?3
add_url_with_date_for_source(m, url, last_modified) == [m EXCEPT ![url] = last_modified]

\* ---------------------------------------------------------------- fetching
\* fetch_feed_urls: one UrlEntry per feed entry that has a link, in feed
\* order; the list is not deduplicated.
fetch_feed_urls == SeqsUpTo(UrlEntry, MaxEntries)

\* fetch_sitemap_urls: entries pushed only when seen_urls.insert(url) is
\* true, so no url occurs twice.
fetch_sitemap_urls == {es \in SeqsUpTo(UrlEntry, MaxEntries) : NoDupUrls(es)}

FetchResults(s) ==
    IF source_type[s] = "sitemap" THEN fetch_sitemap_urls ELSE fetch_feed_urls

\* --------------------------------------------------------------- submit.rs
Min(a, b) == IF a < b THEN a ELSE b

\* chunks with an off-by-one chunk size: entries.chunks(MAX_BATCH_SIZE + 1)
RECURSIVE chunks_off_by_one(_)
chunks_off_by_one(es) ==
    IF es = <<>> THEN <<>>
    ELSE <<SubSeq(es, 1, Min(MAX_BATCH_SIZE + 1, Len(es)))>>
         \o chunks_off_by_one(SubSeq(es, Min(MAX_BATCH_SIZE + 1, Len(es)) + 1, Len(es)))

\* slice::chunks(MAX_BATCH_SIZE) of submit_in_batches' `for` loop: consecutive
\* non-overlapping chunks, the last one possibly shorter.
RECURSIVE chunks(_)
chunks(es) ==
    IF es = <<>> THEN <<>>
    ELSE <<SubSeq(es, 1, Min(MAX_BATCH_SIZE, Len(es)))>>
         \o chunks(SubSeq(es, Min(MAX_BATCH_SIZE, Len(es)) + 1, Len(es)))

\* urlencoding::encode(&entry.url) inside the query string
urlencode(url) == <<"urlencoded", url>>

\* submit_single: GET https://{searchengine}/indexnow?url={url}&key={api_key}
submit_single(cfg, entry) ==
    [method   |-> "GET",
     endpoint |-> <<"https://", cfg.searchengine, "/indexnow">>,
     url      |-> urlencode(entry.url),
     key      |-> cfg.api_key,
     host     |-> "-",
     urlList  |-> <<>>]

\* submit_bulk: POST https://{searchengine}/indexnow, JSON {host, key, urlList}
submit_bulk(cfg, chunk) ==
    [method   |-> "POST",
     endpoint |-> <<"https://", cfg.searchengine, "/indexnow">>,
     url      |-> "-",
     key      |-> cfg.api_key,
     host     |-> cfg.host,
     urlList  |-> [i \in 1..Len(chunk) |-> chunk[i].url]]

\* SubmitRequest without the single-entry case: every chunk goes out as a bulk POST
SubmitRequest_always_bulk(cfg, chunk) == submit_bulk(cfg, chunk)

\* if chunk.len() == 1 { submit_single } else { submit_bulk }
SubmitRequest(cfg, chunk) ==
    IF Len(chunk) = 1 THEN submit_single(cfg, chunk[1]) ELSE submit_bulk(cfg, chunk)

\* print_status_response with the 403 arm returning the 401 arm's error
print_status_response_403_as_401(status) ==
    CASE status = 200 -> "Ok"
      [] status = 202 -> "Ok"
      [] status = 400 -> "Bad Request"
      [] status = 401 -> "Unauthorized"
      [] status = 403 -> "Unauthorized"
      [] status = 422 -> "Unprocessable Entity"
      [] status = 429 -> "Rate limit exceeded"
      [] OTHER        -> "Ok"

\* print_status_response: Err(message) for 400, 401, 403, 422, 429, Ok otherwise
print_status_response(status) ==
    CASE status = 200 -> "Ok"
      [] status = 202 -> "Ok"
      [] status = 400 -> "Bad Request"
      [] status = 401 -> "Unauthorized"
      [] status = 403 -> "Forbidden"
      [] status = 422 -> "Unprocessable Entity"
      [] status = 429 -> "Rate limit exceeded"
      [] OTHER        -> "Ok"

\* reqwest StatusCode::is_success: 200..=299
is_success(status) == status >= 200 /\ status <= 299

\* SubmitOutcome without the `if !status.is_success() && ..` test after
\* print_status_response
SubmitOutcome_no_success_test(status) == print_status_response(status)

\* Result of submit_single / submit_bulk once the response has arrived:
\* print_status_response(..)?, then the is_success test.
SubmitOutcome(status) ==
    IF print_status_response(status) # "Ok" THEN print_status_response(status)
    ELSE IF ~is_success(status) /\ status # 202 THEN "Submission failed with status"
    ELSE "Ok"

\* ------------------------------------------------------- change detection
\* ClassifyEntry without the `if let Some(new_date) = &entry.date` test: an
\* entry without a marker is compared with the stored marker like any other
ClassifyEntry_no_marker_test(stored, entry) ==
    IF stored[entry.url] # NoRow
    THEN IF stored[entry.url] = None \/ entry.date # stored[entry.url]
         THEN <<[url |-> entry.url, reason |-> ReasonModified(entry.date)]>>
         ELSE <<>>
    ELSE <<[url |-> entry.url, reason |-> ReasonNew]>>

\* ClassifyEntry with the New push outside the `else`: an entry whose url
\* is stored is pushed as New as well
ClassifyEntry_new_without_else(stored, entry) ==
    (IF stored[entry.url] # NoRow /\ entry.date # None
        /\ (stored[entry.url] = None \/ entry.date # stored[entry.url])
     THEN <<[url |-> entry.url, reason |-> ReasonModified(entry.date)]>>
     ELSE <<>>)
    \o <<[url |-> entry.url, reason |-> ReasonNew]>>

\* One iteration of `for entry in entries` of handle_subsequent_run (the
\* same loop is repeated in handle_subsequent_run_unattended): the entries
\* pushed to to_submit for `entry`.
ClassifyEntry(stored, entry) ==
    IF stored[entry.url] # NoRow
    THEN IF entry.date # None
         THEN LET is_modified == IF stored[entry.url] # None
                                 THEN entry.date # stored[entry.url]
                                 ELSE TRUE
              IN  IF is_modified
                  THEN <<[url |-> entry.url, reason |-> ReasonModified(entry.date)]>>
                  ELSE <<>>
         ELSE <<>>
    ELSE <<[url |-> entry.url, reason |-> ReasonNew]>>

\* Classify that pushes every fetched entry as New and, after them, one
\* stored url that the fetch did not return
Classify_with_stored(stored, es) ==
    LET gone == {u \in Urls : stored[u] # NoRow /\ \A i \in 1..Len(es) : es[i].url # u}
    IN  [i \in 1..Len(es) |-> [url |-> es[i].url, reason |-> ReasonNew]]
        \o (IF gone = {} THEN <<>>
            ELSE <<[url |-> CHOOSE u \in gone : TRUE, reason |-> ReasonNew]>>)

RECURSIVE Classify(_, _)
Classify(stored, es) ==
    IF es = <<>> THEN <<>>
    ELSE ClassifyEntry(stored, Head(es)) \o Classify(stored, Tail(es))

\* entries.iter().map(|e| SubmitEntry { url, reason: New }).collect()
AllNew(es) == [i \in 1..Len(es) |-> [url |-> es[i].url, reason |-> ReasonNew]]

\* for entry in entries { add_url_with_date_for_source(.., &entry.url, entry.date) }
RECURSIVE StoreAll(_, _)
StoreAll(m, es) ==
    IF es = <<>> THEN m
    ELSE StoreAll(add_url_with_date_for_source(m, Head(es).url, Head(es).date), Tail(es))

\* entries.iter().find(|e| e.url == url).and_then(|e| e.date)
FindDate(es, url) ==
    IF \E i \in 1..Len(es) : es[i].url = url
    THEN es[CHOOSE i \in 1..Len(es) :
                /\ es[i].url = url
                /\ \A j \in 1..(i - 1) : es[j].url # url].date
    ELSE None

\* the marker written for a submitted entry
CommitDate(t, es) ==
    IF t.reason.kind = "New" THEN FindDate(es, t.url) ELSE t.reason.date

\* "Update database with submitted URLs": for entry in &to_submit { .. }
RECURSIVE CommitAll(_, _, _)
CommitAll(m, ts, es) ==
    IF ts = <<>> THEN m
    ELSE CommitAll(add_url_with_date_for_source(m, Head(ts).url, CommitDate(Head(ts), es)),
                   Tail(ts), es)

\* ------------------------------------------------------------ run handlers
\* handle_first_run without its Confirm prompt: the full set goes straight
\* to the submission call
handle_first_run_no_prompt(s, es) ==
    /\ submitted_urls' = [submitted_urls EXCEPT ![s] = StoreAll(@, es)]
    /\ to_submit' = AllNew(es)
    /\ pc' = "submit"
    /\ result' = "running"
    /\ UNCHANGED <<first_run_completed, stored_urls>>

\* handle_first_run up to the Confirm prompt: store every entry, then ask.
handle_first_run(s, es) ==
    /\ submitted_urls' = [submitted_urls EXCEPT ![s] = StoreAll(@, es)]
    /\ to_submit' = <<>>
    /\ pc' = "confirm"
    /\ result' = "running"
    /\ UNCHANGED <<first_run_completed, stored_urls>>

\* handle_first_run_unattended with mark_source_first_run_completed moved
\* before the submission call
handle_first_run_unattended_mark_first(s, es) ==
    /\ submitted_urls' = [submitted_urls EXCEPT ![s] = StoreAll(@, es)]
    /\ first_run_completed' = [first_run_completed EXCEPT ![s] = TRUE]
    /\ to_submit' = AllNew(es)
    /\ pc' = "submit"
    /\ result' = "running"
    /\ UNCHANGED stored_urls

\* handle_first_run_unattended up to the submission call: store every
\* entry, build submit_entries, no prompt.
handle_first_run_unattended(s, es) ==
    /\ submitted_urls' = [submitted_urls EXCEPT ![s] = StoreAll(@, es)]
    /\ to_submit' = AllNew(es)
    /\ pc' = "submit"
    /\ result' = "running"
    /\ UNCHANGED <<first_run_completed, stored_urls>>

\* handle_subsequent_run up to the Confirm prompt (or the early return when
\* nothing is to be submitted).
handle_subsequent_run(s, es) ==
    /\ stored_urls' = get_urls_with_dates_for_source(s)
    /\ to_submit' = Classify(get_urls_with_dates_for_source(s), es)
    /\ IF Classify(get_urls_with_dates_for_source(s), es) = <<>>
       THEN pc' = "done" /\ result' = "Ok"
       ELSE pc' = "confirm" /\ result' = "running"
    /\ UNCHANGED <<first_run_completed, submitted_urls>>

\* handle_subsequent_run_unattended that skips the classification and
\* submits every fetched entry as New
handle_subsequent_run_unattended_all_new(s, es) ==
    /\ stored_urls' = get_urls_with_dates_for_source(s)
    /\ to_submit' = AllNew(es)
    /\ pc' = "submit"
    /\ result' = "running"
    /\ UNCHANGED <<first_run_completed, submitted_urls>>

\* handle_subsequent_run_unattended up to the submission call.
handle_subsequent_run_unattended(s, es) ==
    /\ stored_urls' = get_urls_with_dates_for_source(s)
    /\ to_submit' = Classify(get_urls_with_dates_for_source(s), es)
    /\ IF Classify(get_urls_with_dates_for_source(s), es) = <<>>
       THEN pc' = "done" /\ result' = "Ok"
       ELSE pc' = "submit" /\ result' = "running"
    /\ UNCHANGED <<first_run_completed, submitted_urls>>

\* The previous run of source s fetched es, returned Ok and applied its
\* persisted-state updates (it was not cancelled at the prompt).
Repeats(s, es) ==
    /\ pc = "done"
    /\ cur = s
    /\ entries = es
    /\ result = "Ok"
    /\ ~(~is_first_run /\ answer = "no")

\* process_source whose empty-fetch return first marks the source's first
\* run as completed
process_source_empty_marks(s, unatt, es) ==
    /\ cur' = s
    /\ unattended' = unatt
    /\ entries' = es
    /\ requests' = <<>>
    /\ batch_idx' = 0
    /\ last_status' = 0
    /\ answer' = "none"
    /\ rerun' = Repeats(s, es)
    /\ UNCHANGED source_type
    /\ IF es = <<>>
       THEN /\ is_first_run' = FALSE
            /\ pc' = "done"
            /\ result' = "Ok"
            /\ to_submit' = <<>>
            /\ first_run_completed' = [first_run_completed EXCEPT ![s] = TRUE]
            /\ UNCHANGED <<submitted_urls, stored_urls>>
       ELSE /\ is_first_run' = is_source_first_run(s)
            /\ IF is_source_first_run(s)
               THEN IF unatt THEN handle_first_run_unattended(s, es)
                             ELSE handle_first_run(s, es)
               ELSE IF unatt THEN handle_subsequent_run_unattended(s, es)
                             ELSE handle_subsequent_run(s, es)

\* process_source with a successful fetch returning es.
process_source(s, unatt, es) ==
    /\ cur' = s
    /\ unattended' = unatt
    /\ entries' = es
    /\ requests' = <<>>
    /\ batch_idx' = 0
    /\ last_status' = 0
    /\ answer' = "none"
    /\ rerun' = Repeats(s, es)
    /\ UNCHANGED source_type
    /\ IF es = <<>>
       THEN /\ is_first_run' = FALSE
            /\ pc' = "done"
            /\ result' = "Ok"
            /\ to_submit' = <<>>
            /\ UNCHANGED <<first_run_completed, submitted_urls, stored_urls>>
       ELSE /\ is_first_run' = is_source_first_run(s)
            /\ IF is_source_first_run(s)
               THEN IF unatt THEN handle_first_run_unattended(s, es)
                             ELSE handle_first_run(s, es)
               ELSE IF unatt THEN handle_subsequent_run_unattended(s, es)
                             ELSE handle_subsequent_run(s, es)

\* process_source when fetch_feed_urls / fetch_sitemap_urls returns Err:
\* the `?` returns before anything else happens.
process_source_fetch_error(s, unatt) ==
    /\ cur' = s
    /\ unattended' = unatt
    /\ entries' = <<>>
    /\ requests' = <<>>
    /\ batch_idx' = 0
    /\ last_status' = 0
    /\ answer' = "none"
    /\ rerun' = FALSE
    /\ is_first_run' = FALSE
    /\ to_submit' = <<>>
    /\ pc' = "done"
    /\ result' = "Failed to fetch"
    /\ UNCHANGED <<store, stored_urls>>

\* Confirm with the `if !should_submit { return Ok(()) }` of
\* handle_subsequent_run missing: a declined prompt still submits
Confirm_no_cancel(yes) ==
    /\ pc = "confirm"
    /\ answer' = IF yes THEN "yes" ELSE "no"
    /\ IF is_first_run
       THEN IF yes
            THEN /\ to_submit' = AllNew(entries)
                 /\ pc' = "submit"
                 /\ UNCHANGED <<result, first_run_completed>>
            ELSE /\ first_run_completed' = mark_source_first_run_completed(first_run_completed, cur)
                 /\ pc' = "done"
                 /\ result' = "Ok"
                 /\ UNCHANGED to_submit
       ELSE /\ pc' = "submit"
            /\ UNCHANGED <<result, to_submit, first_run_completed>>
    /\ UNCHANGED <<source_type, submitted_urls, cur, unattended, entries, is_first_run,
                   stored_urls, batch_idx, requests, last_status, rerun>>

\* Confirm whose declined first run returns without
\* mark_source_first_run_completed
Confirm_decline_unmarked(yes) ==
    /\ pc = "confirm"
    /\ answer' = IF yes THEN "yes" ELSE "no"
    /\ IF is_first_run
       THEN IF yes
            THEN /\ to_submit' = AllNew(entries)
                 /\ pc' = "submit"
                 /\ UNCHANGED <<result, first_run_completed>>
            ELSE /\ pc' = "done"
                 /\ result' = "Ok"
                 /\ UNCHANGED <<to_submit, first_run_completed>>
       ELSE /\ IF yes
               THEN pc' = "submit" /\ UNCHANGED result
               ELSE pc' = "done" /\ result' = "Ok"
            /\ UNCHANGED <<to_submit, first_run_completed>>
    /\ UNCHANGED <<source_type, submitted_urls, cur, unattended, entries, is_first_run,
                   stored_urls, batch_idx, requests, last_status, rerun>>

\* The Confirm prompt of handle_first_run / handle_subsequent_run answered,
\* and what follows it up to the submission call or the return.
Confirm(yes) ==
    /\ pc = "confirm"
    /\ answer' = IF yes THEN "yes" ELSE "no"
    /\ IF is_first_run
       THEN IF yes
            THEN /\ to_submit' = AllNew(entries)
                 /\ pc' = "submit"
                 /\ UNCHANGED <<result, first_run_completed>>
            ELSE /\ first_run_completed' = mark_source_first_run_completed(first_run_completed, cur)
                 /\ pc' = "done"
                 /\ result' = "Ok"
                 /\ UNCHANGED to_submit
       ELSE /\ IF yes
               THEN pc' = "submit" /\ UNCHANGED result
               ELSE pc' = "done" /\ result' = "Ok"
            /\ UNCHANGED <<to_submit, first_run_completed>>
    /\ UNCHANGED <<source_type, submitted_urls, cur, unattended, entries, is_first_run,
                   stored_urls, batch_idx, requests, last_status, rerun>>

\* What the handler does once submit_in_batches has returned Ok:
\* first run: mark_source_first_run_completed; subsequent run: the
\* "Update database with submitted URLs" loop.
AfterSubmit ==
    IF is_first_run
    THEN /\ first_run_completed' = mark_source_first_run_completed(first_run_completed, cur)
         /\ UNCHANGED submitted_urls
    ELSE /\ submitted_urls' = [submitted_urls EXCEPT ![cur] = CommitAll(@, to_submit, entries)]
         /\ UNCHANGED first_run_completed

\* submit_in_batches that sends a rate-limited chunk again: on 429 the loop
\* stays on the same chunk
submit_in_batches_retry_429(status) ==
    /\ requests' = Append(requests, SubmitRequest(Cfg, chunks(to_submit)[batch_idx + 1]))
    /\ last_status' = status
    /\ batch_idx' = IF status = 429 THEN batch_idx ELSE batch_idx + 1
    /\ result' = IF status = 429 THEN "running"
                 ELSE IF SubmitOutcome(status) # "Ok" THEN SubmitOutcome(status)
                 ELSE IF batch_idx + 1 < Len(chunks(to_submit)) THEN "running"
                 ELSE "Ok"

\* submit_in_batches without the `?` on submit_single / submit_bulk: a failed
\* batch does not end the loop, the call returns the last batch's outcome
submit_in_batches_no_return(status) ==
    /\ requests' = Append(requests, SubmitRequest(Cfg, chunks(to_submit)[batch_idx + 1]))
    /\ last_status' = status
    /\ batch_idx' = batch_idx + 1
    /\ result' = IF batch_idx + 1 < Len(chunks(to_submit)) THEN "running"
                 ELSE SubmitOutcome(status)

\* One iteration of submit_in_batches' `for` loop: the next chunk is sent
\* in its wire shape and answered with `status`; an Err outcome returns at
\* once through `?`, Ok is returned after the last chunk.
submit_in_batches(status) ==
    /\ requests' = Append(requests, SubmitRequest(Cfg, chunks(to_submit)[batch_idx + 1]))
    /\ last_status' = status
    /\ batch_idx' = batch_idx + 1
    /\ result' = IF SubmitOutcome(status) # "Ok" THEN SubmitOutcome(status)
                 ELSE IF batch_idx + 1 < Len(chunks(to_submit)) THEN "running"
                 ELSE "Ok"

\* AfterBatch with the database updated after every successful batch, for
\* the entries sent so far, instead of once after the whole call
AfterBatch_commit_each_batch(res) ==
    IF res = "running"
    THEN /\ UNCHANGED <<pc, first_run_completed>>
         /\ submitted_urls' =
                IF is_first_run THEN submitted_urls
                ELSE [submitted_urls EXCEPT ![cur] =
                        CommitAll(@, SubSeq(to_submit, 1, (batch_idx + 1) * MAX_BATCH_SIZE), entries)]
    ELSE IF res = "Ok"
    THEN pc' = "done" /\ AfterSubmit
    ELSE pc' = "done" /\ UNCHANGED <<first_run_completed, submitted_urls>>

\* `submit::submit_in_batches(..)?;` in the four handlers and the code after
\* it, given the call's state res: still running, returned Ok (the handler
\* runs to its end), or returned Err (the handler returns the error).
AfterBatch(res) ==
    IF res = "running"
    THEN UNCHANGED <<pc, first_run_completed, submitted_urls>>
    ELSE IF res = "Ok"
    THEN pc' = "done" /\ AfterSubmit
    ELSE pc' = "done" /\ UNCHANGED <<first_run_completed, submitted_urls>>

\* A submission request of the run in progress is answered with `status`.
SendBatch(status) ==
    /\ pc = "submit"
    /\ submit_in_batches(status)
    /\ AfterBatch(result')
    /\ UNCHANGED <<source_type, cur, unattended, entries, is_first_run, stored_urls,
                   to_submit, answer, rerun>>

\* submit_in_batches called on its own, on a classified list.
BatchCall(status) ==
    /\ pc = "batch"
    /\ submit_in_batches(status)
    /\ pc' = IF result' = "running" THEN "batch" ELSE "returned"
    /\ UNCHANGED <<store, cur, unattended, entries, is_first_run, stored_urls,
                   to_submit, answer, rerun>>

\* ----------------------------------------------------------- specification
\* Option<&[i64]>: None, Some(ids).
NoFilter == [some |-> FALSE, ids |-> <<>>]
\* No Err has been returned by the traversal.
NoError == [url |-> None, status |-> 0]
\* No run_submission loop and no sitemap traversal is in progress.
NoRunLoop ==
    /\ entry_filter = NoFilter
    /\ sources = <<>>
    /\ idx = 0
    /\ run_log = <<>>
NoTraversal ==
    /\ web = <<>>
    /\ sm_stack = <<>>
    /\ sm_entries = <<>>
    /\ sm_seen = {}
    /\ sm_calls = <<>>
    /\ sm_state = "idle"
    /\ sm_error = NoError

\* The row-level table is not followed.
NoTable ==
    /\ submitted_urls_rows = EmptyBag
    /\ sqlite_sequence = 0
    /\ last_write = "none"
\* The run is not a dry run and no database write has failed.
NoDryRun ==
    /\ dry_run = FALSE
    /\ new_urls = <<>>
    /\ modified_urls = <<>>
NoWriteError == write_failed = FALSE

Init ==
    /\ source_type \in [SourceIds -> SourceTypes]
    /\ first_run_completed = [s \in SourceIds |-> FALSE]
    /\ submitted_urls = [s \in SourceIds |-> EmptyMap]
    /\ pc = "idle"
    /\ cur = 1
    /\ unattended = FALSE
    /\ entries = <<>>
    /\ is_first_run = FALSE
    /\ stored_urls = EmptyMap
    /\ to_submit = <<>>
    /\ batch_idx = 0
    /\ requests = <<>>
    /\ last_status = 0
    /\ answer = "none"
    /\ result = "running"
    /\ rerun = FALSE
    /\ source_cfg = [s \in SourceIds |-> Cfg]
    /\ NoRunLoop
    /\ NoTraversal
    /\ NoTable
    /\ NoDryRun
    /\ NoWriteError

\* A run starts: the source's document is fetched and yields es.
Fetch == /\ pc = "idle"
         /\ UNCHANGED others
         /\ \E s \in SourceIds, unatt \in BOOLEAN : \E es \in FetchResults(s) :
                process_source(s, unatt, es)
\* The next run starts on unchanged external content: the same source is
\* fetched again and yields the same entries as in the run just finished.
Refetch == /\ pc = "done"
           /\ UNCHANGED others
           /\ result # "Failed to fetch"
           /\ \E unatt \in BOOLEAN : process_source(cur, unatt, entries)
\* A run starts and the fetch fails.
FetchError == /\ pc = "idle"
              /\ UNCHANGED others
              /\ \E s \in SourceIds, unatt \in BOOLEAN : process_source_fetch_error(s, unatt)
Prompt == /\ \E yes \in BOOLEAN : Confirm(yes)
          /\ UNCHANGED others
Submit == /\ \E status \in Statuses : SendBatch(status)
          /\ UNCHANGED others
\* The run is over and the process exits: only the database remains.
Exit ==
    /\ pc = "done"
    /\ pc' = "idle"
    /\ cur' = 1
    /\ unattended' = FALSE
    /\ entries' = <<>>
    /\ is_first_run' = FALSE
    /\ stored_urls' = EmptyMap
    /\ to_submit' = <<>>
    /\ batch_idx' = 0
    /\ requests' = <<>>
    /\ last_status' = 0
    /\ answer' = "none"
    /\ result' = "running"
    /\ rerun' = FALSE
    /\ UNCHANGED <<store, others>>

Next == Fetch \/ Refetch \/ FetchError \/ Prompt \/ Submit \/ Exit

Spec == Init /\ [][Next]_vars

\* submit_in_batches on every non-empty classified list of up to MaxBatchLen
\* entries (its callers never pass an empty list).
BatchInputs == SeqsUpTo(SubmitEntry, MaxBatchLen) \ {<<>>}

InitBatch ==
    /\ source_type = [s \in SourceIds |-> "feed"]
    /\ first_run_completed = [s \in SourceIds |-> TRUE]
    /\ submitted_urls = [s \in SourceIds |-> EmptyMap]
    /\ pc = "batch"
    /\ cur = 1
    /\ unattended = FALSE
    /\ entries = <<>>
    /\ is_first_run = FALSE
    /\ stored_urls = EmptyMap
    /\ to_submit \in BatchInputs
    /\ batch_idx = 0
    /\ requests = <<>>
    /\ last_status = 0
    /\ answer = "none"
    /\ result = "running"
    /\ rerun = FALSE
    /\ source_cfg = [s \in SourceIds |-> Cfg]
    /\ NoRunLoop
    /\ NoTraversal
    /\ NoTable
    /\ NoDryRun
    /\ NoWriteError

NextBatch == /\ \E status \in Statuses : BatchCall(status)
             /\ UNCHANGED others

SpecBatch == InitBatch /\ [][NextBatch]_vars

\* ------------------------------------------------- several sources: main.rs
Range(q) == {q[i] : i \in 1..Len(q)}

\* get_all_sources: SELECT .. FROM sources ORDER BY id; the ids of the rows.
get_all_sources ==
    LET ids == DOMAIN source_type
    IN  CHOOSE q \in [1..Cardinality(ids) -> ids] :
            \A i, j \in 1..Cardinality(ids) : i < j => q[i] < q[j]

\* get_sources_to_process without the `if let Some(ids) = filter` branch:
\* every configured source is returned, with or without -e
get_sources_to_process_ignore_filter(all_sources, filter) ==
    IF all_sources = <<>>
    THEN [error |-> "No sources configured", sources |-> <<>>]
    ELSE [error |-> "Ok", sources |-> all_sources]

\* get_sources_to_process taking the matching ids in the order of the -e
\* list instead of filtering all_sources
get_sources_to_process_filter_order(all_sources, filter) ==
    IF all_sources = <<>>
    THEN [error |-> "No sources configured", sources |-> <<>>]
    ELSE IF filter.some
    THEN LET exists(id) == id \in Range(all_sources)
             filtered == SelectSeq(filter.ids, exists)
         IN  IF filtered = <<>>
             THEN [error |-> "No sources found with IDs", sources |-> <<>>]
             ELSE [error |-> "Ok", sources |-> filtered]
    ELSE [error |-> "Ok", sources |-> all_sources]

\* get_sources_to_process: all_sources, or with -e those of all_sources
\* whose id is in the list, in all_sources' order.
get_sources_to_process(all_sources, filter) ==
    IF all_sources = <<>>
    THEN [error |-> "No sources configured", sources |-> <<>>]
    ELSE IF filter.some
    THEN LET listed(id) == id \in Range(filter.ids)
             filtered == SelectSeq(all_sources, listed)
         IN  IF filtered = <<>>
             THEN [error |-> "No sources found with IDs", sources |-> <<>>]
             ELSE [error |-> "Ok", sources |-> filtered]
    ELSE [error |-> "Ok", sources |-> all_sources]

\* `if source.api_key.is_empty() || source.host.is_empty()`
missing_required_configuration(s) ==
    source_cfg[s].api_key = "" \/ source_cfg[s].host = ""

\* run_submission without its validation loop: the selected sources go to
\* the `for` loop whatever their configuration
run_submission_no_validation(unatt, filter) ==
    LET sel == get_sources_to_process(get_all_sources, filter)
    IN  /\ pc = "idle"
        /\ entry_filter' = filter
        /\ unattended' = unatt
        /\ idx' = 0
        /\ run_log' = <<>>
        /\ IF sel.error # "Ok"
           THEN /\ pc' = "exited"
                /\ result' = sel.error
                /\ sources' = <<>>
           ELSE /\ pc' = "loop"
                /\ result' = "running"
                /\ sources' = sel.sources
        /\ cur' = 1
        /\ entries' = <<>>
        /\ is_first_run' = FALSE
        /\ stored_urls' = EmptyMap
        /\ to_submit' = <<>>
        /\ batch_idx' = 0
        /\ requests' = <<>>
        /\ last_status' = 0
        /\ answer' = "none"
        /\ rerun' = FALSE
        /\ UNCHANGED <<store, source_cfg, smvars, extras>>

\* run_submission (unatt = FALSE) / run_unattended_submission (unatt = TRUE)
\* up to its `for` loop: the sources are selected and their configuration
\* is validated.
run_submission(unatt, filter) ==
    LET sel == get_sources_to_process(get_all_sources, filter)
    IN  /\ pc = "idle"
        /\ entry_filter' = filter
        /\ unattended' = unatt
        /\ idx' = 0
        /\ run_log' = <<>>
        /\ IF sel.error # "Ok"
           THEN /\ pc' = "exited"
                /\ result' = sel.error
                /\ sources' = <<>>
           ELSE IF \E i \in 1..Len(sel.sources) : missing_required_configuration(sel.sources[i])
           THEN /\ pc' = "exited"
                /\ result' = "missing required configuration"
                /\ sources' = <<>>
           ELSE /\ pc' = "loop"
                /\ result' = "running"
                /\ sources' = sel.sources
        /\ cur' = 1
        /\ entries' = <<>>
        /\ is_first_run' = FALSE
        /\ stored_urls' = EmptyMap
        /\ to_submit' = <<>>
        /\ batch_idx' = 0
        /\ requests' = <<>>
        /\ last_status' = 0
        /\ answer' = "none"
        /\ rerun' = FALSE
        /\ UNCHANGED <<store, source_cfg, smvars, extras>>

\* The `for` loop of run_submission is at the top of an iteration: at its
\* start, or the previous process_source(..)? returned Ok.
AtLoopTop == pc = "loop" \/ (pc = "done" /\ result = "Ok")

\* Entry lists fetched in the multi-source run model.
MultiEntry == [url : {"u1"}, date : {None, "d1"}]
MultiFetchResults(s) ==
    {es \in SeqsUpTo(MultiEntry, MaxMultiEntries) :
        source_type[s] = "sitemap" => NoDupUrls(es)}

\* One iteration of the `for` loop: process_source(&conn, source, unatt) is
\* called on the next source and its fetch yields es.
loop_process_source(es) ==
    /\ AtLoopTop
    /\ idx < Len(sources)
    /\ idx' = idx + 1
    /\ run_log' = Append(run_log, sources[idx + 1])
    /\ process_source(sources[idx + 1], unattended, es)
    /\ UNCHANGED <<entry_filter, sources, source_cfg, smvars, extras>>

\* One iteration of the `for` loop in which the fetch fails.
loop_process_source_fetch_error ==
    /\ AtLoopTop
    /\ idx < Len(sources)
    /\ idx' = idx + 1
    /\ run_log' = Append(run_log, sources[idx + 1])
    /\ process_source_fetch_error(sources[idx + 1], unattended)
    /\ UNCHANGED <<entry_filter, sources, source_cfg, smvars, extras>>

\* run_submission returns: process_source(..)? returned Err, which leaves
\* the loop and the function, or the loop is over and Ok(()) is returned.
run_submission_return ==
    /\ pc \in {"loop", "done"}
    /\ (pc = "done" /\ result # "Ok") \/ (AtLoopTop /\ idx = Len(sources))
    /\ pc' = "exited"
    /\ result' = IF pc = "loop" THEN "Ok" ELSE result
    /\ UNCHANGED <<store, cur, unattended, entries, is_first_run, stored_urls, to_submit,
                   batch_idx, requests, last_status, answer, rerun, others>>

\* run_dry_run up to its `for` loop: the same selection and validation as
\* run_submission.
run_dry_run(filter) ==
    LET sel == get_sources_to_process(get_all_sources, filter)
    IN  /\ pc = "idle"
        /\ dry_run' = TRUE
        /\ entry_filter' = filter
        /\ unattended' = FALSE
        /\ idx' = 0
        /\ run_log' = <<>>
        /\ IF sel.error # "Ok"
           THEN /\ pc' = "exited"
                /\ result' = sel.error
                /\ sources' = <<>>
           ELSE IF \E i \in 1..Len(sel.sources) : missing_required_configuration(sel.sources[i])
           THEN /\ pc' = "exited"
                /\ result' = "missing required configuration"
                /\ sources' = <<>>
           ELSE /\ pc' = "loop"
                /\ result' = "running"
                /\ sources' = sel.sources
        /\ cur' = 1
        /\ entries' = <<>>
        /\ is_first_run' = FALSE
        /\ stored_urls' = EmptyMap
        /\ to_submit' = <<>>
        /\ batch_idx' = 0
        /\ requests' = <<>>
        /\ last_status' = 0
        /\ answer' = "none"
        /\ rerun' = FALSE
        /\ UNCHANGED <<store, source_cfg, smvars, dbvars, new_urls, modified_urls, write_failed>>

\* dry_modified_urls comparing only against a stored marker that is
\* present: an entry whose stored marker is absent is never Modified
dry_modified_urls_stored_marker_required(stored, es) ==
    LET is_modified(e) ==
            /\ stored[e.url] \notin {NoRow, None}
            /\ e.date # None /\ e.date # stored[e.url]
        kept == SelectSeq(es, is_modified)
    IN  [i \in 1..Len(kept) |-> [entry |-> kept[i], stored_date |-> stored[kept[i].url]]]

\* dry_run_source's `for entry in &entries`: the entries pushed to new_urls
\* and the (entry, stored_date) pairs pushed to modified_urls.
dry_new_urls(stored, es) ==
    LET is_new(e) == stored[e.url] = NoRow
    IN  SelectSeq(es, is_new)
dry_modified_urls(stored, es) ==
    LET is_modified(e) ==
            stored[e.url] # NoRow /\ e.date # None /\ e.date # stored[e.url]
        kept == SelectSeq(es, is_modified)
    IN  [i \in 1..Len(kept) |-> [entry |-> kept[i], stored_date |-> stored[kept[i].url]]]

\* dry_run_source that records what it found, as the store loop of a first
\* run does
dry_run_source_storing(s, es) ==
    /\ cur' = s
    /\ entries' = es
    /\ requests' = <<>>
    /\ batch_idx' = 0
    /\ last_status' = 0
    /\ answer' = "none"
    /\ rerun' = FALSE
    /\ to_submit' = <<>>
    /\ pc' = "done"
    /\ result' = "Ok"
    /\ is_first_run' = (es # <<>> /\ is_source_first_run(s))
    /\ stored_urls' = EmptyMap
    /\ new_urls' = <<>>
    /\ modified_urls' = <<>>
    /\ submitted_urls' = [submitted_urls EXCEPT ![s] = StoreAll(@, es)]
    /\ UNCHANGED <<source_type, first_run_completed, unattended>>

\* dry_run_source with a successful fetch returning es: the entries are
\* listed (first run) or classified into new_urls and modified_urls and
\* printed; nothing is written and nothing is sent.
dry_run_source(s, es) ==
    /\ cur' = s
    /\ entries' = es
    /\ requests' = <<>>
    /\ batch_idx' = 0
    /\ last_status' = 0
    /\ answer' = "none"
    /\ rerun' = FALSE
    /\ to_submit' = <<>>
    /\ pc' = "done"
    /\ result' = "Ok"
    /\ IF es = <<>>
       THEN /\ is_first_run' = FALSE
            /\ stored_urls' = EmptyMap
            /\ new_urls' = <<>>
            /\ modified_urls' = <<>>
       ELSE /\ is_first_run' = is_source_first_run(s)
            /\ IF is_source_first_run(s)
               THEN /\ stored_urls' = EmptyMap
                    /\ new_urls' = <<>>
                    /\ modified_urls' = <<>>
               ELSE /\ stored_urls' = get_urls_with_dates_for_source(s)
                    /\ new_urls' = dry_new_urls(get_urls_with_dates_for_source(s), es)
                    /\ modified_urls' =
                          dry_modified_urls(get_urls_with_dates_for_source(s), es)
    /\ UNCHANGED <<store, unattended>>

\* dry_run_source when the fetch returns Err.
dry_run_source_fetch_error(s) ==
    /\ cur' = s
    /\ entries' = <<>>
    /\ requests' = <<>>
    /\ batch_idx' = 0
    /\ last_status' = 0
    /\ answer' = "none"
    /\ rerun' = FALSE
    /\ is_first_run' = FALSE
    /\ to_submit' = <<>>
    /\ stored_urls' = EmptyMap
    /\ new_urls' = <<>>
    /\ modified_urls' = <<>>
    /\ pc' = "done"
    /\ result' = "Failed to fetch"
    /\ UNCHANGED <<store, unattended>>

\* One iteration of run_dry_run's `for` loop: dry_run_source(&conn, source)?
loop_dry_run_source(es) ==
    /\ AtLoopTop
    /\ dry_run
    /\ idx < Len(sources)
    /\ idx' = idx + 1
    /\ run_log' = Append(run_log, sources[idx + 1])
    /\ dry_run_source(sources[idx + 1], es)
    /\ UNCHANGED <<entry_filter, sources, source_cfg, smvars, dbvars, dry_run, write_failed>>
loop_dry_run_source_fetch_error ==
    /\ AtLoopTop
    /\ dry_run
    /\ idx < Len(sources)
    /\ idx' = idx + 1
    /\ run_log' = Append(run_log, sources[idx + 1])
    /\ dry_run_source_fetch_error(sources[idx + 1])
    /\ UNCHANGED <<entry_filter, sources, source_cfg, smvars, dbvars, dry_run, write_failed>>

\* The Err of a failed database write, as `?` hands it to the caller.
WriteError == "database write failed"

\* the store loop of a first run with `let _ =` in place of `?`: the failed
\* write is skipped and the handler goes on
process_source_store_error_ignored(s, unatt, es, k) ==
    /\ es # <<>>
    /\ k \in 1..Len(es)
    /\ is_source_first_run(s)
    /\ write_failed' = TRUE
    /\ cur' = s
    /\ unattended' = unatt
    /\ entries' = es
    /\ requests' = <<>>
    /\ batch_idx' = 0
    /\ last_status' = 0
    /\ answer' = "none"
    /\ rerun' = FALSE
    /\ is_first_run' = TRUE
    /\ submitted_urls' = [submitted_urls EXCEPT ![s] =
          StoreAll(@, SubSeq(es, 1, k - 1) \o SubSeq(es, k + 1, Len(es)))]
    /\ to_submit' = IF unatt THEN AllNew(es) ELSE <<>>
    /\ pc' = IF unatt THEN "submit" ELSE "confirm"
    /\ result' = "running"
    /\ UNCHANGED <<source_type, first_run_completed, stored_urls>>

\* process_source on a first run whose store loop fails at its k-th write:
\* `db::add_url_with_date_for_source(..)?` returns the Err from the handler
\* and from process_source, the writes before it having been made.
process_source_store_error(s, unatt, es, k) ==
    /\ es # <<>>
    /\ k \in 1..Len(es)
    /\ is_source_first_run(s)
    /\ write_failed' = TRUE
    /\ cur' = s
    /\ unattended' = unatt
    /\ entries' = es
    /\ requests' = <<>>
    /\ batch_idx' = 0
    /\ last_status' = 0
    /\ answer' = "none"
    /\ rerun' = FALSE
    /\ is_first_run' = TRUE
    /\ submitted_urls' = [submitted_urls EXCEPT ![s] = StoreAll(@, SubSeq(es, 1, k - 1))]
    /\ to_submit' = <<>>
    /\ pc' = "done"
    /\ result' = WriteError
    /\ UNCHANGED <<source_type, first_run_completed, stored_urls>>

\* The first-run prompt is declined and mark_source_first_run_completed(..)?
\* fails: the handler returns the Err, the flag is not set.
Confirm_mark_error ==
    /\ pc = "confirm"
    /\ is_first_run
    /\ answer' = "no"
    /\ write_failed' = TRUE
    /\ pc' = "done"
    /\ result' = WriteError
    /\ UNCHANGED <<store, cur, unattended, entries, is_first_run, stored_urls, to_submit,
                   batch_idx, requests, last_status, rerun>>

\* The last batch of the submission is accepted and a write after it fails:
\* mark_source_first_run_completed(..)? on a first run, the k-th write of
\* the update loop on a subsequent run, the writes before it having been
\* made.
SendBatch_write_error(status, k) ==
    /\ pc = "submit"
    /\ SubmitOutcome(status) = "Ok"
    /\ batch_idx + 1 = Len(chunks(to_submit))
    /\ k \in 1..Len(to_submit)
    /\ is_first_run => k = 1
    /\ requests' = Append(requests, SubmitRequest(Cfg, chunks(to_submit)[batch_idx + 1]))
    /\ last_status' = status
    /\ batch_idx' = batch_idx + 1
    /\ write_failed' = TRUE
    /\ pc' = "done"
    /\ result' = WriteError
    /\ submitted_urls' =
          IF is_first_run THEN submitted_urls
          ELSE [submitted_urls EXCEPT ![cur] = CommitAll(@, SubSeq(to_submit, 1, k - 1), entries)]
    /\ UNCHANGED <<source_type, first_run_completed, cur, unattended, entries, is_first_run,
                   stored_urls, to_submit, answer, rerun>>

\* One iteration of the `for` loop in which the store loop of a first run
\* fails.
loop_process_source_store_error(es, k) ==
    /\ AtLoopTop
    /\ idx < Len(sources)
    /\ idx' = idx + 1
    /\ run_log' = Append(run_log, sources[idx + 1])
    /\ process_source_store_error(sources[idx + 1], unattended, es, k)
    /\ UNCHANGED <<entry_filter, sources, source_cfg, smvars, dbvars, dryvars>>

MultiIds == 1..NumSources
\* -e lists: ids in any order.
Filters ==
    {NoFilter} \cup
    {[some |-> TRUE, ids |-> q] :
        q \in {r \in SeqsUpTo(MultiIds, NumSources) : Cardinality(Range(r)) = Len(r)}}
\* Configurations a source row can hold: complete, no api_key, no host.
SourceCfgs == {Cfg, [Cfg EXCEPT !.api_key = ""], [Cfg EXCEPT !.host = ""]}

\* A source's rows before its first run, and after a first run that
\* fetched u1 with marker d1.
SourceRows ==
    {[first_run_completed |-> FALSE, submitted_urls |-> EmptyMap],
     [first_run_completed |-> TRUE,
      submitted_urls |-> add_url_with_date_for_source(EmptyMap, "u1", "d1")]}

\* The process starts on a database holding any set of sources (ids of
\* removed sources are not reused), each before or after its first run.
InitMulti ==
    /\ \E ids \in SUBSET MultiIds :
          /\ source_type \in [ids -> SourceTypes]
          /\ source_cfg \in [ids -> SourceCfgs]
          /\ \E rows \in [ids -> SourceRows] :
                /\ first_run_completed = [s \in ids |-> rows[s].first_run_completed]
                /\ submitted_urls = [s \in ids |-> rows[s].submitted_urls]
    /\ pc = "idle"
    /\ cur = 1
    /\ unattended = FALSE
    /\ entries = <<>>
    /\ is_first_run = FALSE
    /\ stored_urls = EmptyMap
    /\ to_submit = <<>>
    /\ batch_idx = 0
    /\ requests = <<>>
    /\ last_status = 0
    /\ answer = "none"
    /\ result = "running"
    /\ rerun = FALSE
    /\ NoRunLoop
    /\ NoTraversal
    /\ NoTable
    /\ NoDryRun
    /\ NoWriteError

StartRun == \E unatt \in BOOLEAN, filter \in Filters : run_submission(unatt, filter)
NextSource == /\ idx < Len(sources)
              /\ \E es \in MultiFetchResults(sources[idx + 1]) : loop_process_source(es)
NextSourceFetchError == loop_process_source_fetch_error
RunReturn == run_submission_return
\* A database write of the run fails.
StoreWriteError ==
    /\ idx < Len(sources)
    /\ \E es \in MultiFetchResults(sources[idx + 1]) : \E k \in 1..Len(es) :
          loop_process_source_store_error(es, k)
PromptWriteError ==
    /\ Confirm_mark_error
    /\ UNCHANGED <<source_cfg, loopvars, smvars, dbvars, dryvars>>
SubmitWriteError ==
    /\ \E status \in Statuses, k \in 1..Len(to_submit) : SendBatch_write_error(status, k)
    /\ UNCHANGED <<source_cfg, loopvars, smvars, dbvars, dryvars>>

NextMulti ==
    \/ StartRun \/ NextSource \/ NextSourceFetchError \/ Prompt \/ Submit \/ RunReturn
    \/ StoreWriteError \/ PromptWriteError \/ SubmitWriteError

SpecMulti == InitMulti /\ [][NextMulti]_vars

\* ------------------------------------------------------- dry run: main.rs
\* Rows of a source before its first run, and after runs that recorded u1,
\* last with marker d2, and completed the first run.
DryRows ==
    {[first_run_completed |-> FALSE, submitted_urls |-> EmptyMap],
     [first_run_completed |-> TRUE,
      submitted_urls |-> add_url_with_date_for_source(EmptyMap, "u1", "d2")]}
\* Settings of a source: complete, or without api_key.
DryCfgs == {Cfg, [Cfg EXCEPT !.api_key = ""]}

\* The process starts with --dry-run on a database holding any set of
\* sources.
InitDry ==
    /\ \E ids \in SUBSET MultiIds :
          /\ source_type \in [ids -> SourceTypes]
          /\ source_cfg \in [ids -> DryCfgs]
          /\ \E rows \in [ids -> DryRows] :
                /\ first_run_completed = [s \in ids |-> rows[s].first_run_completed]
                /\ submitted_urls = [s \in ids |-> rows[s].submitted_urls]
    /\ pc = "idle"
    /\ cur = 1
    /\ unattended = FALSE
    /\ entries = <<>>
    /\ is_first_run = FALSE
    /\ stored_urls = EmptyMap
    /\ to_submit = <<>>
    /\ batch_idx = 0
    /\ requests = <<>>
    /\ last_status = 0
    /\ answer = "none"
    /\ result = "running"
    /\ rerun = FALSE
    /\ NoRunLoop
    /\ NoTraversal
    /\ NoTable
    /\ NoDryRun
    /\ NoWriteError

StartDryRun == \E filter \in Filters : run_dry_run(filter)
DrySource == /\ idx < Len(sources)
             /\ dry_run
             /\ \E es \in MultiFetchResults(sources[idx + 1]) : loop_dry_run_source(es)
DrySourceFetchError == loop_dry_run_source_fetch_error
\* run_dry_run returns, as run_submission does: on the first Err, or Ok
\* after the loop.
DryRunReturn == dry_run /\ run_submission_return

NextDry == StartDryRun \/ DrySource \/ DrySourceFetchError \/ DryRunReturn

SpecDry == InitDry /\ [][NextDry]_vars

\* ------------------------------------------------------------- sitemap.rs
\* Sitemap references; the source's sitemap url is Root.
Docs == {"s1", "s2", "s3"}
Root == "s1"
\* <url> blocks of the documents explored: <loc> and <lastmod> (None: the
\* block has none).
UrlBlock ==
    {[loc |-> "u1", lastmod |-> None], [loc |-> "u1", lastmod |-> "d1"],
     [loc |-> "u2", lastmod |-> None]}
\* What a GET answers: the status (0: send() failed, no response) and, of
\* the body, whether it contains "<sitemapindex", the <loc> of its
\* <sitemap> blocks and its <url> blocks.
FailedDocs ==
    {[status |-> st, sitemapindex |-> FALSE, sitemap_locs |-> <<>>, url_blocks |-> <<>>] :
        st \in {0, 404}}
IndexDocs ==
    {[status |-> 200, sitemapindex |-> TRUE, sitemap_locs |-> q, url_blocks |-> <<>>] :
        q \in SeqsUpTo(Docs, MaxChildren)}
LeafDocs ==
    {[status |-> 200, sitemapindex |-> FALSE, sitemap_locs |-> <<>>, url_blocks |-> b] :
        b \in SeqsUpTo(UrlBlock, MaxUrlBlocks)}
\* The webs explored: s1 and s2 answer anything, s3 is not an index.
Webs ==
    {w \in [Docs -> FailedDocs \cup IndexDocs \cup LeafDocs] : ~w["s3"].sitemapindex}

\* parse_sitemap_index returning after the first <sitemap> block
parse_sitemap_index_first_only(content) ==
    SubSeq(content.sitemap_locs, 1, Min(1, Len(content.sitemap_locs)))

\* parse_sitemap_index: the <loc> of every <sitemap> block, in document order.
parse_sitemap_index(content) == content.sitemap_locs

\* str::trim on the element texts explored (" ": a blank text).
trim(text) ==
    IF text = " " THEN ""
    ELSE IF text = " u1 " THEN "u1"
    ELSE IF text = " u2 " THEN "u2"
    ELSE IF text = " d1 " THEN "d1"
    ELSE text

\* parse_sitemap that takes only the <url> blocks that have a <lastmod>
parse_sitemap_lastmod_required(content) ==
    LET complete(b) == b.loc # None /\ trim(b.loc) # "" /\ b.lastmod # None
        blocks == SelectSeq(content.url_blocks, complete)
    IN  [i \in 1..Len(blocks) |->
            [url |-> trim(blocks[i].loc), date |-> trim(blocks[i].lastmod)]]

\* parse_sitemap: one UrlEntry per <url> block in which loc_re captures a
\* text (None: it does not) whose trim is not empty, in document order;
\* date is the trimmed text captured by lastmod_re, if any.
parse_sitemap(content) ==
    LET has_loc(b) == b.loc # None /\ trim(b.loc) # ""
        blocks == SelectSeq(content.url_blocks, has_loc)
    IN  [i \in 1..Len(blocks) |->
            [url |-> trim(blocks[i].loc),
             date |-> IF blocks[i].lastmod = None THEN None ELSE trim(blocks[i].lastmod)]]

\* dispatch on the <sitemap> blocks found instead of the token
is_sitemap_index_by_blocks(content) == content.sitemap_locs # <<>>

\* `content.contains("<sitemapindex")`
is_sitemap_index(content) == content.sitemapindex

\* What the Err of a failed fetch names: `client.get(url).send()?` hands on
\* reqwest's error, which names the url and no status (status 0: no
\* response); a response that is not a success gives
\* format!("Failed to fetch sitemap: HTTP {}", response.status()).
fetch_error(url, status) ==
    IF status = 0 THEN [url |-> url, status |-> 0]
    ELSE [url |-> None, status |-> status]

\* push_unseen with a seen set of its own for every document: only the
\* repetitions of a url within the document are skipped
push_unseen_per_document(acc, urls) ==
    LET first == {i \in 1..Len(urls) : \A j \in 1..(i - 1) : urls[j].url # urls[i].url}
        nth(k) == CHOOSE i \in first : Cardinality({j \in first : j < i}) = k - 1
        own == [k \in 1..Cardinality(first) |-> urls[nth(k)]]
    IN  [entries |-> acc.entries \o own,
         seen |-> acc.seen \cup {urls[i].url : i \in 1..Len(urls)}]

\* `for entry in urls { if seen_urls.insert(entry.url.clone()) {
\* entries.push(entry) } }` on acc = (entries, seen).
RECURSIVE push_unseen(_, _)
push_unseen(acc, urls) ==
    IF urls = <<>> THEN acc
    ELSE LET entry == Head(urls)
         IN  push_unseen(
                IF entry.url \in acc.seen THEN acc
                ELSE [entries |-> Append(acc.entries, entry),
                      seen |-> acc.seen \cup {entry.url}],
                Tail(urls))

\* `depth > MAX_DEPTH` tested one level too late
max_depth_exceeded_one_late(depth) == depth > MAX_DEPTH + 1

\* `if depth > MAX_DEPTH`
max_depth_exceeded(depth) == depth > MAX_DEPTH

\* fetch_sitemap_recursive returning Err instead of Ok(()) when the depth
\* ceiling is exceeded
fetch_sitemap_recursive_err_at_ceiling(url, depth) ==
    LET content == web[url]
        pending == Tail(sm_stack)
    IN  IF max_depth_exceeded(depth)
        THEN /\ sm_calls' = Append(sm_calls, [url |-> url, depth |-> depth, op |-> "skip"])
             /\ sm_stack' = <<>>
             /\ sm_state' = "Err"
             /\ UNCHANGED <<sm_entries, sm_seen, sm_error>>
        ELSE /\ sm_calls' = Append(sm_calls, [url |-> url, depth |-> depth, op |-> "fetch"])
             /\ IF ~is_success(content.status)
                THEN /\ sm_stack' = <<>>
                     /\ sm_state' = "Err"
                     /\ sm_error' = fetch_error(url, content.status)
                     /\ UNCHANGED <<sm_entries, sm_seen>>
                ELSE IF is_sitemap_index(content)
                THEN LET sub_sitemaps == parse_sitemap_index(content)
                         calls == [i \in 1..Len(sub_sitemaps) |->
                                     [url |-> sub_sitemaps[i], depth |-> depth + 1]]
                     IN  /\ sm_stack' = calls \o pending
                         /\ sm_state' = IF calls \o pending = <<>> THEN "Ok" ELSE "running"
                         /\ UNCHANGED <<sm_entries, sm_seen, sm_error>>
                ELSE LET acc == push_unseen([entries |-> sm_entries, seen |-> sm_seen],
                                            parse_sitemap(content))
                     IN  /\ sm_entries' = acc.entries
                         /\ sm_seen' = acc.seen
                         /\ sm_stack' = pending
                         /\ sm_state' = IF pending = <<>> THEN "Ok" ELSE "running"
                         /\ UNCHANGED sm_error

\* One fetch_sitemap_recursive(client, url, entries, seen_urls, depth) call,
\* up to its first nested call or its return.  The nested calls of an
\* index are queued in document order before the calls still pending; an
\* Err returns through the `?` of every pending caller.
fetch_sitemap_recursive(url, depth) ==
    LET content == web[url]
        pending == Tail(sm_stack)
    IN  IF max_depth_exceeded(depth)
        THEN /\ sm_calls' = Append(sm_calls, [url |-> url, depth |-> depth, op |-> "skip"])
             /\ sm_stack' = pending
             /\ sm_state' = IF pending = <<>> THEN "Ok" ELSE "running"
             /\ UNCHANGED <<sm_entries, sm_seen, sm_error>>
        ELSE /\ sm_calls' = Append(sm_calls, [url |-> url, depth |-> depth, op |-> "fetch"])
             /\ IF ~is_success(content.status)
                THEN /\ sm_stack' = <<>>
                     /\ sm_state' = "Err"
                     /\ sm_error' = fetch_error(url, content.status)
                     /\ UNCHANGED <<sm_entries, sm_seen>>
                ELSE IF is_sitemap_index(content)
                THEN LET sub_sitemaps == parse_sitemap_index(content)
                         calls == [i \in 1..Len(sub_sitemaps) |->
                                     [url |-> sub_sitemaps[i], depth |-> depth + 1]]
                     IN  /\ sm_stack' = calls \o pending
                         /\ sm_state' = IF calls \o pending = <<>> THEN "Ok" ELSE "running"
                         /\ UNCHANGED <<sm_entries, sm_seen, sm_error>>
                ELSE LET acc == push_unseen([entries |-> sm_entries, seen |-> sm_seen],
                                            parse_sitemap(content))
                     IN  /\ sm_entries' = acc.entries
                         /\ sm_seen' = acc.seen
                         /\ sm_stack' = pending
                         /\ sm_state' = IF pending = <<>> THEN "Ok" ELSE "running"
                         /\ UNCHANGED sm_error

\* process_source going on with the entries collected so far when
\* fetch_sitemap_urls failed
process_source_sitemap_partial(s, unatt) == process_source(s, unatt, sm_entries)

\* process_source of a sitemap source once fetch_sitemap_urls has returned:
\* `fetch_sitemap_urls(&source.source_url)?` and what follows.
process_source_sitemap(s, unatt) ==
    IF sm_state = "Err"
    THEN process_source_fetch_error(s, unatt)
    ELSE process_source(s, unatt, sm_entries)

\* The process starts on a sitemap source before its first run and calls
\* fetch_sitemap_urls on it.
InitSitemap ==
    /\ source_type = [s \in SourceIds |-> "sitemap"]
    /\ source_cfg = [s \in SourceIds |-> Cfg]
    /\ first_run_completed = [s \in SourceIds |-> FALSE]
    /\ submitted_urls = [s \in SourceIds |-> EmptyMap]
    /\ pc = "fetching"
    /\ cur = 1
    /\ unattended = FALSE
    /\ entries = <<>>
    /\ is_first_run = FALSE
    /\ stored_urls = EmptyMap
    /\ to_submit = <<>>
    /\ batch_idx = 0
    /\ requests = <<>>
    /\ last_status = 0
    /\ answer = "none"
    /\ result = "running"
    /\ rerun = FALSE
    /\ NoRunLoop
    /\ web \in Webs
    /\ sm_stack = <<[url |-> Root, depth |-> 0]>>
    /\ sm_entries = <<>>
    /\ sm_seen = {}
    /\ sm_calls = <<>>
    /\ sm_state = "running"
    /\ sm_error = NoError
    /\ NoTable
    /\ NoDryRun
    /\ NoWriteError

\* The next pending fetch_sitemap_recursive call is made.
SitemapCall ==
    /\ pc = "fetching"
    /\ sm_state = "running"
    /\ fetch_sitemap_recursive(Head(sm_stack).url, Head(sm_stack).depth)
    /\ UNCHANGED <<store, pc, cur, unattended, entries, is_first_run, stored_urls, to_submit,
                   batch_idx, requests, last_status, answer, result, rerun, source_cfg,
                   loopvars, web, extras>>
\* fetch_sitemap_urls has returned to process_source.
SitemapReturn ==
    /\ pc = "fetching"
    /\ sm_state \in {"Ok", "Err"}
    /\ \E unatt \in BOOLEAN : process_source_sitemap(cur, unatt)
    /\ UNCHANGED others

NextSitemap == SitemapCall \/ SitemapReturn \/ Prompt \/ Submit

SpecSitemap == InitSitemap /\ [][NextSitemap]_vars

\* ------------------------- documents as written: parse_sitemap and the dispatch
\* <url> blocks as written: the text of <loc> and of <lastmod> with its
\* padding (None: no such element or an empty one, which loc_re and
\* lastmod_re do not match; " ": a blank text).
RawLocs == {None, " ", " u1 ", "u2"}
RawLastmods == {None, " ", " d1 "}
RawBlock == [loc : RawLocs, lastmod : RawLastmods]
\* The root document: with or without the "<sitemapindex" text, with or
\* without <sitemap> blocks, with any <url> blocks.
RawRootDocs ==
    [status : {200}, sitemapindex : BOOLEAN,
     sitemap_locs : {<<>>, <<"s2", "s3">>, <<"s3", "s2">>},
     url_blocks : SeqsUpTo(RawBlock, MaxRawBlocks)]
\* The documents the root may refer to: s2 is a document without the
\* "<sitemapindex" text that holds a <sitemap> block, one with the text
\* that holds a <url> block and no <sitemap> block, or fails; s3 is a
\* plain url set.
RawSubDocs ==
    {[status |-> 200, sitemapindex |-> FALSE, sitemap_locs |-> <<"s3">>,
      url_blocks |-> <<[loc |-> " u1 ", lastmod |-> None]>>],
     [status |-> 200, sitemapindex |-> TRUE, sitemap_locs |-> <<>>,
      url_blocks |-> <<[loc |-> "u2", lastmod |-> " d1 "]>>],
     [status |-> 404, sitemapindex |-> FALSE, sitemap_locs |-> <<>>, url_blocks |-> <<>>]}
RawLeafDoc ==
    [status |-> 200, sitemapindex |-> FALSE, sitemap_locs |-> <<>>,
     url_blocks |-> <<[loc |-> "u2", lastmod |-> None]>>]
RawWebs ==
    {[d \in Docs |-> IF d = Root THEN root ELSE IF d = "s2" THEN sub ELSE RawLeafDoc] :
        root \in RawRootDocs, sub \in RawSubDocs}

\* fetch_sitemap_urls called on a root document as written.
InitParse ==
    /\ source_type = [s \in SourceIds |-> "sitemap"]
    /\ source_cfg = [s \in SourceIds |-> Cfg]
    /\ first_run_completed = [s \in SourceIds |-> FALSE]
    /\ submitted_urls = [s \in SourceIds |-> EmptyMap]
    /\ pc = "fetching"
    /\ cur = 1
    /\ unattended = FALSE
    /\ entries = <<>>
    /\ is_first_run = FALSE
    /\ stored_urls = EmptyMap
    /\ to_submit = <<>>
    /\ batch_idx = 0
    /\ requests = <<>>
    /\ last_status = 0
    /\ answer = "none"
    /\ result = "running"
    /\ rerun = FALSE
    /\ NoRunLoop
    /\ web \in RawWebs
    /\ sm_stack = <<[url |-> Root, depth |-> 0]>>
    /\ sm_entries = <<>>
    /\ sm_seen = {}
    /\ sm_calls = <<>>
    /\ sm_state = "running"
    /\ sm_error = NoError
    /\ NoTable
    /\ NoDryRun
    /\ NoWriteError

NextParse == SitemapCall

SpecParse == InitParse /\ [][NextParse]_vars

\* --------------------------------------------- the database, row by row: db.rs
\* Source ids the sources table gives out while it is followed.
DbIds == {1, 2}
\* A row of submitted_urls (its id and submitted_at are not followed).
Row == [source_id : DbIds, url : Urls, last_modified : Markers]
\* the rows of (source_id, url)
RowsOf(rows, source_id, url) ==
    {r \in BagToSet(rows) : r.source_id = source_id /\ r.url = url}

\* add_url_with_date_for_source with a plain INSERT, without the
\* ON CONFLICT clause and the UNIQUE constraint behind it
add_url_with_date_for_source_rows_plain_insert(rows, source_id, url, last_modified) ==
    rows (+) SetToBag({[source_id |-> source_id, url |-> url,
                        last_modified |-> last_modified]})

\* INSERT INTO submitted_urls (source_id, url, last_modified) VALUES (..)
\* ON CONFLICT(source_id, url) DO UPDATE SET last_modified = ?3:
\* the conflicting row is updated in place, else a row is inserted.
add_url_with_date_for_source_rows(rows, source_id, url, last_modified) ==
    LET new == [source_id |-> source_id, url |-> url, last_modified |-> last_modified]
        hit == RowsOf(rows, source_id, url)
    IN  IF hit = {}
        THEN rows (+) SetToBag({new})
        ELSE LET old == CHOOSE r \in hit : TRUE
             IN  [r \in (BagToSet(rows) \ {old}) \cup {new} |->
                     (IF r \in BagToSet(rows) \ {old} THEN rows[r] ELSE 0)
                     + (IF r = new THEN rows[old] ELSE 0)]

\* remove_source without its first statement: only the sources row is
\* deleted
remove_source_keep_urls(id) ==
    /\ submitted_urls_rows' = submitted_urls_rows
    /\ last_write' = "none"
    /\ source_type' = [s \in DOMAIN source_type \ {id} |-> source_type[s]]
    /\ source_cfg' = [s \in DOMAIN source_cfg \ {id} |-> source_cfg[s]]
    /\ first_run_completed' =
          [s \in DOMAIN first_run_completed \ {id} |-> first_run_completed[s]]
    /\ submitted_urls' = [s \in DOMAIN submitted_urls \ {id} |-> submitted_urls[s]]
    /\ UNCHANGED sqlite_sequence

\* db::remove_source: DELETE FROM submitted_urls WHERE source_id = ?1, then
\* DELETE FROM sources WHERE id = ?1.
remove_source(id) ==
    /\ submitted_urls_rows' =
          [r \in {x \in BagToSet(submitted_urls_rows) : x.source_id # id} |->
              submitted_urls_rows[r]]
    /\ last_write' = IF \E r \in BagToSet(submitted_urls_rows) : r.source_id = id
                     THEN "delete" ELSE "none"
    /\ source_type' = [s \in DOMAIN source_type \ {id} |-> source_type[s]]
    /\ source_cfg' = [s \in DOMAIN source_cfg \ {id} |-> source_cfg[s]]
    /\ first_run_completed' =
          [s \in DOMAIN first_run_completed \ {id} |-> first_run_completed[s]]
    /\ submitted_urls' = [s \in DOMAIN submitted_urls \ {id} |-> submitted_urls[s]]
    /\ UNCHANGED sqlite_sequence

\* db::add_source: INSERT INTO sources (..); the row gets the next
\* AUTOINCREMENT id, first_run_completed DEFAULT 0 and no url.
add_source(type, cfg) ==
    LET id == sqlite_sequence + 1
    IN  /\ sqlite_sequence' = id
        /\ source_type' = [s \in DOMAIN source_type \cup {id} |->
                              IF s = id THEN type ELSE source_type[s]]
        /\ source_cfg' = [s \in DOMAIN source_cfg \cup {id} |->
                              IF s = id THEN cfg ELSE source_cfg[s]]
        /\ first_run_completed' = [s \in DOMAIN first_run_completed \cup {id} |->
                              IF s = id THEN FALSE ELSE first_run_completed[s]]
        /\ submitted_urls' = [s \in DOMAIN submitted_urls \cup {id} |->
                              IF s = id THEN EmptyMap ELSE submitted_urls[s]]
        /\ last_write' = "none"
        /\ UNCHANGED submitted_urls_rows

\* update_source that also resets the source: its urls are deleted and its
\* flag is cleared
update_source_reset(id, type, cfg) ==
    /\ source_type' = [source_type EXCEPT ![id] = type]
    /\ source_cfg' = [source_cfg EXCEPT ![id] = cfg]
    /\ first_run_completed' = [first_run_completed EXCEPT ![id] = FALSE]
    /\ submitted_urls' = [submitted_urls EXCEPT ![id] = EmptyMap]
    /\ submitted_urls_rows' =
          [r \in {x \in BagToSet(submitted_urls_rows) : x.source_id # id} |->
              submitted_urls_rows[r]]
    /\ last_write' = "none"
    /\ UNCHANGED sqlite_sequence

\* update_source that also writes first_run_completed = 0: the edited
\* source is taken for a new one
update_source_clear_flag(id, type, cfg) ==
    /\ source_type' = [source_type EXCEPT ![id] = type]
    /\ source_cfg' = [source_cfg EXCEPT ![id] = cfg]
    /\ first_run_completed' = [first_run_completed EXCEPT ![id] = FALSE]
    /\ last_write' = "none"
    /\ UNCHANGED <<submitted_urls, submitted_urls_rows, sqlite_sequence>>

\* db::update_source: UPDATE sources SET source_type, source_url, api_key,
\* host, searchengine WHERE id = ?6.
update_source(id, type, cfg) ==
    /\ source_type' = [source_type EXCEPT ![id] = type]
    /\ source_cfg' = [source_cfg EXCEPT ![id] = cfg]
    /\ last_write' = "none"
    /\ UNCHANGED <<first_run_completed, submitted_urls, submitted_urls_rows, sqlite_sequence>>

\* db::clear_database: after the Confirm prompt (default no), DELETE FROM
\* submitted_urls, DELETE FROM sources, DELETE FROM app_state.
clear_database(yes) ==
    IF yes
    THEN /\ submitted_urls_rows' = EmptyBag
         /\ last_write' = IF submitted_urls_rows # EmptyBag THEN "delete" ELSE "none"
         /\ source_type' = <<>>
         /\ source_cfg' = <<>>
         /\ first_run_completed' = <<>>
         /\ submitted_urls' = <<>>
         /\ UNCHANGED sqlite_sequence
    ELSE /\ last_write' = "none"
         /\ UNCHANGED <<store, source_cfg, submitted_urls_rows, sqlite_sequence>>

\* Types and settings given to --add and to the edit dialogue.
SourceEdits == {<<"feed", Cfg>>, <<"sitemap", [Cfg EXCEPT !.api_key = "key2"]>>}

\* The database right after init_db has created it: no source, no url.
InitDb ==
    /\ source_type = <<>>
    /\ source_cfg = <<>>
    /\ first_run_completed = <<>>
    /\ submitted_urls = <<>>
    /\ pc = "db"
    /\ cur = 1
    /\ unattended = FALSE
    /\ entries = <<>>
    /\ is_first_run = FALSE
    /\ stored_urls = EmptyMap
    /\ to_submit = <<>>
    /\ batch_idx = 0
    /\ requests = <<>>
    /\ last_status = 0
    /\ answer = "none"
    /\ result = "running"
    /\ rerun = FALSE
    /\ NoRunLoop
    /\ NoTraversal
    /\ NoTable
    /\ NoDryRun
    /\ NoWriteError

\* What the database operations leave alone.
DbFrame ==
    UNCHANGED <<pc, cur, unattended, entries, is_first_run, stored_urls, to_submit,
                batch_idx, requests, last_status, answer, result, rerun, loopvars,
                smvars, dryvars, write_failed>>

\* --add: config::add_source.
AddSource ==
    /\ sqlite_sequence + 1 \in DbIds
    /\ \E e \in SourceEdits : add_source(e[1], e[2])
    /\ DbFrame
\* --config, changes saved: config::edit_config on an existing source.
UpdateSource ==
    /\ \E id \in DOMAIN source_type, e \in SourceEdits : update_source(id, e[1], e[2])
    /\ DbFrame
\* --remove: config::remove_source.
RemoveSource ==
    /\ \E id \in DbIds : remove_source(id)
    /\ DbFrame
\* --clear-db.
ClearDatabase ==
    /\ \E yes \in BOOLEAN : clear_database(yes)
    /\ DbFrame
\* A run records a url for a configured source.
RecordUrl ==
    /\ \E s \in DOMAIN source_type, u \in Urls, m \in Markers :
          /\ submitted_urls_rows' =
                add_url_with_date_for_source_rows(submitted_urls_rows, s, u, m)
          /\ submitted_urls' =
                [submitted_urls EXCEPT ![s] = add_url_with_date_for_source(@, u, m)]
          /\ last_write' = IF RowsOf(submitted_urls_rows, s, u) = {}
                           THEN "insert" ELSE "update"
    /\ UNCHANGED <<source_type, source_cfg, first_run_completed, sqlite_sequence>>
    /\ DbFrame
\* A run sets the first-run flag of a configured source.
MarkCompleted ==
    /\ \E s \in DOMAIN source_type :
          first_run_completed' = mark_source_first_run_completed(first_run_completed, s)
    /\ last_write' = "none"
    /\ UNCHANGED <<source_type, source_cfg, submitted_urls, submitted_urls_rows,
                   sqlite_sequence>>
    /\ DbFrame

NextDb ==
    AddSource \/ UpdateSource \/ RemoveSource \/ ClearDatabase \/ RecordUrl \/ MarkCompleted

SpecDb == InitDb /\ [][NextDb]_vars

\* ------------------------------------------------------------------ claims
\* The run in progress is a subsequent (non-first) run that got past the fetch.
SubsequentRun == pc \in {"confirm", "submit", "done"} /\ ~is_first_run /\ entries # <<>>
\* The run in progress is a first run that got past the fetch.
FirstRun == pc \in {"confirm", "submit", "done"} /\ is_first_run
Failed == result \notin {"running", "Ok"}
UrlsOf(es) == [i \in 1..Len(es) |-> es[i].url]

\* C1: in a subsequent run, for the persisted mapping P read at the start of
\* the run, to_submit is the list of the fetched entries, in fetched order,
\* that are New (url not in P) or Modified (url in P, the entry has a marker,
\* and P's marker is absent or a different string), each tagged New or
\* Modified with the entry's marker; every other entry is dropped, so an
\* entry without a marker is never Modified.
C1_IsNew(P, e) == P[e.url] = NoRow
C1_IsModified(P, e) ==
    /\ P[e.url] # NoRow
    /\ e.date # None
    /\ (P[e.url] = None \/ P[e.url] # e.date)
C1_Expected(P, es) ==
    LET keep(e) == C1_IsNew(P, e) \/ C1_IsModified(P, e)
        kept == SelectSeq(es, keep)
    IN  [i \in 1..Len(kept) |->
            [url |-> kept[i].url,
             reason |-> IF C1_IsNew(P, kept[i]) THEN ReasonNew
                        ELSE ReasonModified(kept[i].date)]]
C1_Classification ==
    SubsequentRun =>
        /\ to_submit = C1_Expected(stored_urls, entries)
        /\ \A i \in 1..Len(to_submit) :
              to_submit[i].reason.kind = "Modified" => to_submit[i].reason.date \in Dates
\* a subsequent run with a New entry, a Modified entry and an entry that has
\* no marker although the persisted marker of its url is a date
C1_Witness ==
    /\ SubsequentRun
    /\ \E i \in 1..Len(to_submit) : to_submit[i].reason.kind = "New"
    /\ \E i \in 1..Len(to_submit) : to_submit[i].reason.kind = "Modified"
    /\ \E j \in 1..Len(entries) :
          /\ entries[j].date = None
          /\ stored_urls[entries[j].url] \in Dates

\* C2: a run that repeats the entries of the previous run of the same
\* source, which returned Ok and applied its updates, builds an empty
\* submission set and issues no request.
C2_Idempotent == rerun => (to_submit = <<>> /\ requests = <<>>)
\* the same, for sources whose fetched list has no duplicate url
C2_IdempotentNoDup == (rerun /\ NoDupUrls(entries)) => (to_submit = <<>> /\ requests = <<>>)

\* C3: the submission set of a run contains no url twice.
C3_NoDuplicateUrl == NoDupUrls(to_submit)

\* C4 as claimed: when a later batch of a run fails, the entries of every
\* earlier, successful batch are recorded in the persisted state (a New
\* entry has a row, a Modified entry's row has changed since the run began).
C4_Recorded(t) ==
    IF t.reason.kind = "New" \/ is_first_run
    THEN submitted_urls[cur][t.url] # NoRow
    ELSE submitted_urls[cur][t.url] # stored_urls[t.url]
C5_Unchanged ==
    (SubsequentRun /\ pc = "done" /\ (answer = "no" \/ Failed))
        => submitted_urls[cur] = stored_urls
C5_WriteStep ==
    (first_run_completed[cur'] /\ submitted_urls' # submitted_urls) =>
        /\ pc = "submit"
        /\ result' = "Ok"
        /\ unattended \/ answer = "yes"
        /\ \A s \in SourceIds, u \in Urls :
              submitted_urls'[s][u] # submitted_urls[s][u] =>
                  s = cur /\ \E i \in 1..Len(to_submit) : to_submit[i].url = u
C5_WriteOnlyAfterSuccess == [](C5_Unchanged) /\ [][C5_WriteStep]_vars
\* an accepted, successful subsequent run has changed the mapping
C5_Witness ==
    /\ SubsequentRun
    /\ pc = "done"
    /\ answer = "yes"
    /\ result = "Ok"
    /\ submitted_urls[cur] # stored_urls

\* C6 as claimed: a first run issues a submission request only after the
\* prompt was accepted in that run, in interactive and unattended mode.
C6_NeverAutoApproved == (FirstRun /\ requests # <<>>) => answer = "yes"
\* C6 amended: a first run issues a submission request only if the run is
\* unattended or the prompt was accepted in that run; an interactive first
\* run reaches the submission call only through an accepted prompt.
C6_AcceptedOrUnattended ==
    /\ (FirstRun /\ requests # <<>>) => (unattended \/ answer = "yes")
    /\ (FirstRun /\ pc = "submit" /\ ~unattended) => answer = "yes"
\* an interactive first run that was accepted and has sent a request
C6_Witness == FirstRun /\ ~unattended /\ answer = "yes" /\ requests # <<>>

\* C7: on a first run every fetched entry is recorded with its own fetched
\* marker before the prompt or any request, and stays recorded to the end.
C7_AllRecorded ==
    FirstRun => \A i \in 1..Len(entries) :
                    submitted_urls[cur][entries[i].url] = entries[i].date
\* the same, for a fetched list without duplicate urls
C7_AllRecordedNoDup ==
    (FirstRun /\ NoDupUrls(entries)) =>
        \A i \in 1..Len(entries) : submitted_urls[cur][entries[i].url] = entries[i].date

\* The urls a request carries, in order (the GET's query parameter decoded).
RequestUrls(r) == IF r.method = "GET" THEN <<r.url[2]>> ELSE r.urlList
RECURSIVE Flatten(_)
Flatten(rs) == IF rs = <<>> THEN <<>> ELSE RequestUrls(Head(rs)) \o Flatten(Tail(rs))
\* ceil(n / d): the least k with k * d >= n
Ceil(n, d) == CHOOSE k \in 0..n : k * d >= n /\ \A j \in 0..(k - 1) : j * d < n

\* C8: the requests of a submission call partition the input list into
\* consecutive chunks: every request but the last carries exactly
\* MAX_BATCH_SIZE urls, none carries more, the urls of the requests in call
\* order are the input's urls in order, each once, and a call in which no
\* batch fails issues exactly ceil(n / MAX_BATCH_SIZE) requests.
C8_Partition ==
    /\ \A i \in 1..Len(requests) :
          /\ Len(RequestUrls(requests[i])) \in 1..MAX_BATCH_SIZE
          /\ i < Len(requests) => Len(RequestUrls(requests[i])) = MAX_BATCH_SIZE
    /\ Flatten(requests) = SubSeq(UrlsOf(to_submit), 1, Len(Flatten(requests)))
    /\ result = "running" => Len(Flatten(requests)) = Len(requests) * MAX_BATCH_SIZE
    /\ result = "Ok" =>
          /\ Len(requests) = Ceil(Len(to_submit), MAX_BATCH_SIZE)
          /\ Flatten(requests) = UrlsOf(to_submit)
\* MAX_BATCH_SIZE + 1 entries gave 2 calls, of MAX_BATCH_SIZE entries then 1
C8_Witness ==
    /\ pc = "returned"
    /\ result = "Ok"
    /\ Len(to_submit) = MAX_BATCH_SIZE + 1
    /\ Len(requests) = 2
    /\ Len(RequestUrls(requests[1])) = MAX_BATCH_SIZE
    /\ Len(RequestUrls(requests[2])) = 1
    /\ \E i, j \in 1..Len(to_submit) : to_submit[i].reason.kind # to_submit[j].reason.kind

\* C9: the i-th request is a single-URL GET (url and key query parameters)
\* when the i-th chunk of the input has exactly one entry, and otherwise a
\* bulk POST with body {host, key, urlList} listing that chunk's urls in
\* order; the trailing chunk of a multi-batch call is no exception.
C9_Chunk(i) ==
    SubSeq(to_submit, (i - 1) * MAX_BATCH_SIZE + 1, Min(i * MAX_BATCH_SIZE, Len(to_submit)))
C9_WireShape ==
    \A i \in 1..Len(requests) :
        IF Len(C9_Chunk(i)) = 1
        THEN /\ requests[i].method = "GET"
             /\ requests[i].url = urlencode(C9_Chunk(i)[1].url)
             /\ requests[i].key = Cfg.api_key
             /\ requests[i].urlList = <<>>
        ELSE /\ requests[i].method = "POST"
             /\ requests[i].host = Cfg.host
             /\ requests[i].key = Cfg.api_key
             /\ requests[i].urlList = UrlsOf(C9_Chunk(i))
             /\ Len(requests[i].urlList) >= 2
\* a three-batch call whose trailing chunk of one entry went out as a GET
\* after two bulk POSTs
C9_Witness ==
    /\ Len(requests) = 3
    /\ requests[1].method = "POST"
    /\ requests[2].method = "POST"
    /\ requests[3].method = "GET"

\* C10: once a batch has received a fatal status the call has returned the
\* failure (status 401 as "Unauthorized") with that batch as its last
\* request, and no further request is issued by the call.
FatalStatuses == {400, 401, 403, 422, 429}
C10_Returned ==
    last_status \in FatalStatuses =>
        /\ pc = "returned"
        /\ Failed
        /\ last_status = 401 => result = "Unauthorized"
        /\ Len(requests) = batch_idx
C10_NoMoreRequests == last_status \in FatalStatuses => requests' = requests
C10_FailFast == [](C10_Returned) /\ [][C10_NoMoreRequests]_vars
\* batch 1 of 2 received 401: one request was sent, the error is Unauthorized
C10_Witness ==
    /\ Len(chunks(to_submit)) = 2
    /\ Len(requests) = 1
    /\ last_status = 401
    /\ result = "Unauthorized"
    /\ pc = "returned"

\* C11: the outcome of a batch depends on the response status alone, for a
\* single GET and a bulk POST alike: 200 and 202 are success (the call goes
\* on or returns Ok), and 400, 401, 403, 422, 429 each return their own
\* error: Bad Request, Unauthorized, Forbidden, Unprocessable Entity, Rate
\* limit exceeded.
C11_ErrorOf(status) ==
    CASE status = 400 -> "Bad Request"
      [] status = 401 -> "Unauthorized"
      [] status = 403 -> "Forbidden"
      [] status = 422 -> "Unprocessable Entity"
      [] status = 429 -> "Rate limit exceeded"
C11_StatusMapping ==
    requests # <<>> =>
        \A shape \in {"GET", "POST"} :
            requests[Len(requests)].method = shape =>
                /\ last_status \in {200, 202} =>
                      result = IF batch_idx < Len(chunks(to_submit)) THEN "running" ELSE "Ok"
                /\ last_status \in {400, 401, 403, 422, 429} =>
                      result = C11_ErrorOf(last_status)
                /\ Cardinality({C11_ErrorOf(s) : s \in {400, 401, 403, 422, 429}}) = 5
\* a single-URL GET, sent after a bulk POST that succeeded, answered 403
C11_Witness ==
    /\ Len(requests) = 2
    /\ requests[1].method = "POST"
    /\ requests[2].method = "GET"
    /\ last_status = 403
    /\ result = "Forbidden"

\* C12 as claimed: a batch answered with a status other than 200, 202, 400,
\* 401, 403, 422, 429 raises no failure, and the remaining batches are
\* still attempted.
KnownStatuses == {200, 202, 400, 401, 403, 422, 429}
C12_Unexpected == last_status # 0 /\ last_status \notin KnownStatuses
C12_UnexpectedContinues ==
    C12_Unexpected =>
        /\ ~Failed
        /\ batch_idx < Len(chunks(to_submit)) => pc = "batch"
\* C12 amended: such a status raises no failure only when it is a 2xx status
\* (e.g. 204): the call then goes on with the remaining batches; any other
\* status (e.g. 404, 500, 503) returns the error "Submission failed with
\* status .." and ends the call like a fatal status.
C12_UnexpectedBy2xx ==
    C12_Unexpected =>
        IF last_status >= 200 /\ last_status < 300
        THEN /\ ~Failed
             /\ batch_idx < Len(chunks(to_submit)) => (pc = "batch" /\ result = "running")
        ELSE /\ result = "Submission failed with status"
             /\ pc = "returned"
\* batch 1 of several was answered 204 and the call is still running
C12_Witness ==
    /\ last_status = 204
    /\ batch_idx = 1
    /\ Len(chunks(to_submit)) > 1
    /\ pc = "batch"
    /\ result = "running"

\* C13: every request of a call is for the chunk after the last one sent
\* (no chunk is sent twice), at most one request per chunk is issued, and
\* after a 429 response the call issues no further request.
C13_OncePerBatch ==
    /\ Len(requests) = batch_idx
    /\ batch_idx <= Len(chunks(to_submit))
    /\ last_status = 429 => pc = "returned"
C13_Step ==
    requests' # requests =>
        /\ last_status # 429
        /\ batch_idx' = batch_idx + 1
        /\ requests' = Append(requests, requests'[batch_idx'])
        /\ RequestUrls(requests'[batch_idx']) = UrlsOf(C9_Chunk(batch_idx'))
C13_NoRetry == [](C13_OncePerBatch) /\ [][C13_Step]_vars
\* batch 1 of 3 was answered 429: the call returned with 2 batches unsent
C13_Witness ==
    /\ last_status = 429
    /\ Len(requests) = 1
    /\ Len(chunks(to_submit)) = 3
    /\ pc = "returned"
    /\ result = "Rate limit exceeded"

\* C14: a fetch failure of one source is fatal to that source only: when the
\* run is over, every selected source - those ordered after the failing one
\* included - has been processed.
C14_ErrorIsolation ==
    (pc = "exited" /\ sources # <<>> /\ result = "Failed to fetch") => run_log = sources

\* C15: the sources whose processing has started are, in order, the idx
\* smallest ids among the configured sources selected by -e (all of them
\* without -e), whatever the order of the -e list; and the processing of a
\* source starts only when the run is at the top of its loop, the
\* processing of the previous source being over.
C15_Selected ==
    {s \in DOMAIN source_type : ~entry_filter.some \/ s \in Range(entry_filter.ids)}
C15_Ascending ==
    /\ \A i, j \in 1..Len(run_log) : i < j => run_log[i] < run_log[j]
    /\ Range(run_log) \subseteq C15_Selected
    /\ \A j \in Range(run_log) : \A s \in C15_Selected : s < j => s \in Range(run_log)
    /\ Len(run_log) = idx
    /\ pc \in {"confirm", "submit", "done"} => cur = run_log[idx]
C15_Step ==
    run_log' # run_log =>
        /\ pc \in {"loop", "done"}
        /\ pc = "done" => result = "Ok"
        /\ Len(run_log') = Len(run_log) + 1
        /\ SubSeq(run_log', 1, Len(run_log)) = run_log
C15_AscendingOneByOne == [](C15_Ascending) /\ [][C15_Step]_vars
\* -e 2,1: source 1 was processed, then source 2, and the run returned Ok
C15_Witness ==
    /\ entry_filter = [some |-> TRUE, ids |-> <<2, 1>>]
    /\ run_log = <<1, 2>>
    /\ pc = "exited"
    /\ result = "Ok"
    /\ requests # <<>>

\* Sitemap graph of the web: the children of an index that answers 2xx.
SmOk(d) == web[d].status >= 200 /\ web[d].status < 300
SmIndex(d) == SmOk(d) /\ web[d].sitemapindex
SmChildren(d) == IF SmIndex(d) THEN Range(web[d].sitemap_locs) ELSE {}
RECURSIVE SmReachN(_, _)
SmReachN(S, n) ==
    IF n = 0 THEN S ELSE SmReachN(S \cup UNION {SmChildren(d) : d \in S}, n - 1)
\* documents reachable from d by one or more references
SmReach(d) == SmReachN(SmChildren(d), Cardinality(Docs))
SmTree == {Root} \cup SmReach(Root)
SmAcyclic == \A d \in SmTree : d \notin SmReach(d)
SmMax(S) == IF S = {} THEN 0 ELSE CHOOSE m \in S : \A x \in S : x <= m
RECURSIVE SmDepth(_, _)
SmDepth(d, fuel) ==
    IF fuel = 0 \/ SmChildren(d) = {} THEN 0
    ELSE 1 + SmMax({SmDepth(c, fuel - 1) : c \in SmChildren(d)})
\* the url entries listed by a document: its <url> blocks that have a <loc>
SmListed(d) ==
    LET b == web[d].url_blocks
        withLoc == {i \in 1..Len(b) : b[i].loc # None}
        nth(k) == CHOOSE i \in withLoc : Cardinality({j \in withLoc : j < i}) = k - 1
    IN  [k \in 1..Cardinality(withLoc) |-> [url |-> b[nth(k)].loc, date |-> b[nth(k)].lastmod]]
\* position of the first entry of flat with url u
FirstAt(flat, u) == CHOOSE i \in 1..Len(flat) : flat[i].url = u /\ \A j \in 1..(i - 1) : flat[j].url # u

\* C16: when the sitemap graph under the root is acyclic, of depth at most
\* MAX_DEPTH, and every document in it answers 2xx, the traversal returns
\* Ok and the urls of its entries are exactly the urls listed in the leaf
\* documents, each once, in the order in which a depth-first walk in
\* document order meets them first.
RECURSIVE C16_Walk(_, _)
C16_Walk(refs, fuel) ==
    IF refs = <<>> \/ fuel = 0 THEN <<>>
    ELSE LET d == Head(refs)
         IN  (IF SmIndex(d) THEN C16_Walk(web[d].sitemap_locs, fuel - 1) ELSE SmListed(d))
             \o C16_Walk(Tail(refs), fuel)
C16_AcyclicAllOk ==
    /\ sm_state # "idle"
    /\ SmAcyclic
    /\ SmDepth(Root, Cardinality(Docs)) <= MAX_DEPTH
    /\ \A d \in SmTree : SmOk(d)
C16_EveryLeafUrlOnce ==
    C16_AcyclicAllOk =>
        /\ sm_state # "Err"
        /\ sm_state = "Ok" =>
              LET flat == C16_Walk(<<Root>>, Cardinality(Docs) + 1)
              IN  /\ {sm_entries[i].url : i \in 1..Len(sm_entries)} = {flat[i].url : i \in 1..Len(flat)}
                  /\ NoDupUrls(sm_entries)
                  /\ \A i, j \in 1..Len(sm_entries) :
                        i < j => FirstAt(flat, sm_entries[i].url) < FirstAt(flat, sm_entries[j].url)
\* s1 lists the leaves s2 and s3, which list different urls: both returned
C16_Witness ==
    /\ C16_AcyclicAllOk
    /\ sm_state = "Ok"
    /\ web["s1"].sitemap_locs = <<"s2", "s3">>
    /\ Len(sm_entries) = 2
    /\ Len(sm_calls) = 3

\* C17: on every web, cyclic ones included, the traversal terminates: each
\* call strictly decreases a natural-number measure of the pending calls
\* (a call at depth d weighs 1 plus MaxChildren calls at depth d + 1, and 1
\* beyond the ceiling), a traversal that is not over always has a call to
\* make, and the number of calls is bounded by the weight of the root call;
\* and no document is fetched at a depth above MAX_DEPTH.
RECURSIVE C17_Weight(_)
C17_Weight(depth) ==
    IF depth > MAX_DEPTH THEN 1 ELSE 1 + MaxChildren * C17_Weight(depth + 1)
RECURSIVE C17_Measure(_)
C17_Measure(stack) ==
    IF stack = <<>> THEN 0 ELSE C17_Weight(Head(stack).depth) + C17_Measure(Tail(stack))
C17_Bounded ==
    sm_state # "idle" =>
        /\ \A i \in 1..Len(sm_calls) : sm_calls[i].op = "fetch" => sm_calls[i].depth <= MAX_DEPTH
        /\ Len(sm_calls) + C17_Measure(sm_stack) <= C17_Weight(0)
        /\ sm_state = "running" <=> sm_stack # <<>>
        /\ sm_state = "running" => pc = "fetching"
C17_Decreases ==
    sm_calls' # sm_calls =>
        /\ Len(sm_calls') = Len(sm_calls) + 1
        /\ C17_Measure(sm_stack') < C17_Measure(sm_stack)
C17_Terminates == [](C17_Bounded) /\ [][C17_Decreases]_vars
\* an index that lists itself was traversed to its end
C17_Witness ==
    /\ sm_state = "Ok"
    /\ "s1" \in Range(web["s1"].sitemap_locs)
    /\ Len(sm_calls) >= 7
    /\ \E i \in 1..Len(sm_calls) : sm_calls[i].op = "skip"

\* C18: a call at a depth above MAX_DEPTH makes no fetch, leaves the entries
\* and the seen set as they are and returns Ok to its caller (the pending
\* calls go on); the traversal fails only on a fetch that is not answered
\* 2xx, and when it returns Ok its entries cover the url entries listed by
\* every document within the ceiling.
RECURSIVE WalkWithinCeiling(_)
WalkWithinCeiling(calls) ==
    IF calls = <<>> THEN <<>>
    ELSE LET c == Head(calls)
         IN  IF c.depth > MAX_DEPTH THEN WalkWithinCeiling(Tail(calls))
             ELSE IF SmIndex(c.url)
             THEN WalkWithinCeiling(
                    [i \in 1..Len(web[c.url].sitemap_locs) |->
                        [url |-> web[c.url].sitemap_locs[i], depth |-> c.depth + 1]]
                    \o Tail(calls))
             ELSE SmListed(c.url) \o WalkWithinCeiling(Tail(calls))
C18_SkipIsOk ==
    sm_state # "idle" =>
        /\ \A i \in 1..Len(sm_calls) : sm_calls[i].op = "skip" <=> sm_calls[i].depth > MAX_DEPTH
        /\ sm_state = "Err" =>
              /\ sm_calls[Len(sm_calls)].op = "fetch"
              /\ ~SmOk(sm_calls[Len(sm_calls)].url)
        /\ sm_state = "Ok" =>
              LET flat == WalkWithinCeiling(<<[url |-> Root, depth |-> 0]>>)
              IN  {sm_entries[i].url : i \in 1..Len(sm_entries)} = {flat[i].url : i \in 1..Len(flat)}
C18_SkipStep ==
    (sm_calls' # sm_calls /\ Head(sm_stack).depth > MAX_DEPTH) =>
        /\ sm_calls'[Len(sm_calls')] = [url |-> Head(sm_stack).url, depth |-> Head(sm_stack).depth, op |-> "skip"]
        /\ sm_stack' = Tail(sm_stack)
        /\ sm_state' # "Err"
        /\ UNCHANGED <<sm_entries, sm_seen>>
C18_CeilingSkips == [](C18_SkipIsOk) /\ [][C18_SkipStep]_vars
\* s1 lists itself and a leaf: the self-reference is skipped beyond the
\* ceiling and the traversal returns Ok with the leaf's entry
C18_Witness ==
    /\ sm_state = "Ok"
    /\ \E i \in 1..Len(sm_calls) : sm_calls[i].op = "skip" /\ sm_calls[i].depth = MAX_DEPTH + 1
    /\ sm_entries # <<>>
    /\ pc = "done"
    /\ result = "Ok"

\* C19: at every point of the traversal the entries hold no url twice and
\* the seen set is the set of their urls; entries are only ever appended;
\* and in the returned sequence the entry of a url is the first one that
\* the walk of the web meets for that url (same marker), the entries being
\* ordered by those first positions.
C19_OneSeenSet ==
    sm_state # "idle" =>
        /\ NoDupUrls(sm_entries)
        /\ sm_seen = {sm_entries[i].url : i \in 1..Len(sm_entries)}
        /\ sm_state = "Ok" =>
              LET flat == WalkWithinCeiling(<<[url |-> Root, depth |-> 0]>>)
              IN  /\ \A i \in 1..Len(sm_entries) :
                        sm_entries[i] = flat[FirstAt(flat, sm_entries[i].url)]
                  /\ \A i, j \in 1..Len(sm_entries) :
                        i < j => FirstAt(flat, sm_entries[i].url) < FirstAt(flat, sm_entries[j].url)
                  /\ \A k \in 1..Len(flat) : flat[k].url \in sm_seen
C19_AppendOnly ==
    /\ Len(sm_entries') >= Len(sm_entries)
    /\ SubSeq(sm_entries', 1, Len(sm_entries)) = sm_entries
C19_FirstOccurrenceKept == [](C19_OneSeenSet) /\ [][C19_AppendOnly]_vars
\* u1 is listed with marker d1 by leaf s2 and without marker by leaf s3,
\* both children of s1: the entry with d1 is the one returned
C19_Witness ==
    /\ sm_state = "Ok"
    /\ web["s1"].sitemap_locs = <<"s2", "s3">>
    /\ web["s2"].url_blocks = <<[loc |-> "u1", lastmod |-> "d1"]>>
    /\ web["s3"].url_blocks = <<[loc |-> "u1", lastmod |-> None]>>
    /\ sm_entries = <<[url |-> "u1", date |-> "d1"]>>

\* C20: once a fetch of the traversal was not answered 2xx the traversal is
\* failed: process_source gets no entry list and returns "Failed to fetch",
\* and from then on the run leaves the source's records and first-run flag
\* as they are and issues no submission request.
C20_FetchFailed ==
    \E i \in 1..Len(sm_calls) : sm_calls[i].op = "fetch" /\ ~SmOk(sm_calls[i].url)
C20_WholeTraversalFails ==
    (sm_state # "idle" /\ C20_FetchFailed) =>
        /\ sm_state = "Err"
        /\ entries = <<>>
        /\ to_submit = <<>>
        /\ requests = <<>>
        /\ pc \in {"fetching", "done"}
        /\ pc = "done" => result = "Failed to fetch"
C20_NoWrite ==
    (sm_state = "Err" \/ sm_state' = "Err") =>
        /\ UNCHANGED <<first_run_completed, submitted_urls>>
        /\ requests' = <<>>
C20_FailsWhole == [](C20_WholeTraversalFails) /\ [][C20_NoWrite]_vars
\* the second child of the index failed after the first had yielded an
\* entry: the run of this first-run source ended with nothing recorded
C20_Witness ==
    /\ sm_state = "Err"
    /\ pc = "done"
    /\ result = "Failed to fetch"
    /\ sm_entries # <<>>
    /\ Len(sm_calls) = 3
    /\ ~first_run_completed[1]
    /\ submitted_urls[1] = EmptyMap

\* C21: in a subsequent run every fetched entry falls in exactly one of the
\* classes New (no persisted record), Modified (record, fresh marker, and
\* the persisted marker absent or different) and Unchanged (record, and no
\* fresh marker or the same marker); the loop pushes at most one item for
\* it, a New item exactly for a New entry, a Modified item exactly for a
\* Modified entry and nothing exactly for an Unchanged entry.
C21_IsUnchanged(P, e) ==
    /\ P[e.url] # NoRow
    /\ (e.date = None \/ (P[e.url] # None /\ P[e.url] = e.date))
C21_Classes(P, e) ==
    {k \in {"New", "Modified", "Unchanged"} :
        \/ k = "New" /\ C1_IsNew(P, e)
        \/ k = "Modified" /\ C1_IsModified(P, e)
        \/ k = "Unchanged" /\ C21_IsUnchanged(P, e)}
C21_TotalExclusive ==
    SubsequentRun =>
        /\ \A i \in 1..Len(entries) :
              LET e == entries[i]
                  pushed == ClassifyEntry(stored_urls, e)
              IN  /\ Cardinality(C21_Classes(stored_urls, e)) = 1
                  /\ Len(pushed) <= 1
                  /\ pushed = <<>> <=> C21_Classes(stored_urls, e) = {"Unchanged"}
                  /\ pushed # <<>> => C21_Classes(stored_urls, e) = {pushed[1].reason.kind}
        /\ Len(to_submit) =
              Cardinality({i \in 1..Len(entries) : ~C21_IsUnchanged(stored_urls, entries[i])})
\* a subsequent run that fetched three entries, one of each class
C21_Witness ==
    /\ SubsequentRun
    /\ Len(entries) = 3
    /\ {k \in {"New", "Modified", "Unchanged"} :
          \E i \in 1..3 : C21_Classes(stored_urls, entries[i]) = {k}}
       = {"New", "Modified", "Unchanged"}
    /\ Len(to_submit) = 2

\* C22: when a subsequent run has submitted successfully and updated the
\* database, the persisted marker of every submitted url is the marker of
\* the fetched entry that was classified for it (of the last such entry
\* when several entries of the url were classified, its write being the
\* last): its own marker for a New entry, the new marker for a Modified one.
C22_Committed ==
    /\ SubsequentRun
    /\ pc = "done"
    /\ result = "Ok"
    /\ requests # <<>>
C22_Kept ==
    LET keep(e) == C1_IsNew(stored_urls, e) \/ C1_IsModified(stored_urls, e)
    IN  SelectSeq(entries, keep)
C22_OwnMarkerRecorded ==
    C22_Committed =>
        \A k \in 1..Len(C22_Kept) :
            (\A j \in (k + 1)..Len(C22_Kept) : C22_Kept[j].url # C22_Kept[k].url)
                => submitted_urls[cur][C22_Kept[k].url] = C22_Kept[k].date
\* the same, for fetched lists without duplicate url
C22_OwnMarkerRecordedNoDup ==
    (C22_Committed /\ NoDupUrls(entries)) =>
        \A k \in 1..Len(C22_Kept) :
            submitted_urls[cur][C22_Kept[k].url] = C22_Kept[k].date

\* C28 (as stated): whenever a run submits, the submission set is a strict
\* subset of the fetched entries: every submitted url is a fetched url and
\* at least one fetched entry is not submitted.
C28_Submitting == pc \in {"submit", "done"} /\ to_submit # <<>>
C28_StrictSubset ==
    C28_Submitting =>
        /\ Range(UrlsOf(to_submit)) \subseteq Range(UrlsOf(entries))
        /\ Len(to_submit) < Len(entries)
\* C28 (amended): the submission set is a subset of the fetched entries,
\* possibly all of them: every url of to_submit and every url put in a
\* request is the url of a fetched entry, and to_submit has at most one
\* item per fetched entry.
C28_Subset ==
    pc \in {"confirm", "submit", "done"} =>
        /\ Range(UrlsOf(to_submit)) \subseteq Range(UrlsOf(entries))
        /\ Range(Flatten(requests)) \subseteq Range(UrlsOf(entries))
        /\ Len(to_submit) <= Len(entries)
\* a run that submitted every fetched entry, in first-run mode and in
\* subsequent-run mode
C28_WitnessFirst ==
    /\ FirstRun
    /\ pc = "done"
    /\ result = "Ok"
    /\ Len(entries) > 1
    /\ Flatten(requests) = UrlsOf(entries)
C28_Witness ==
    /\ SubsequentRun
    /\ pc = "done"
    /\ result = "Ok"
    /\ Len(entries) > 1
    /\ Flatten(requests) = UrlsOf(entries)

\* C29 (as stated): in every reachable state a source whose first-run
\* completion flag is unset has no persisted URL record.
C29_HasRecords(s) == submitted_urls[s] # EmptyMap
C29_UnsetFlagNoRecords ==
    \A s \in DOMAIN first_run_completed :
        ~first_run_completed[s] => ~C29_HasRecords(s)
\* C29 (amended): records exist under an unset flag only as the work of a
\* first-run pass that did not complete.  (a) Records are written under an
\* unset flag only by the store loop that opens a first-run pass. (b) While
\* a run of a source with records and an unset flag is at its prompt or
\* submitting, it is a first-run pass. (c) Such a run ends with the flag
\* still unset only if it failed or fetched nothing: a first-run pass that
\* returns Ok has set the flag. (d) A subsequent-run pass over fetched
\* entries runs only with the flag set.
C29_UnfinishedState ==
    /\ (pc \in {"confirm", "submit", "done"}
          /\ ~first_run_completed[cur] /\ C29_HasRecords(cur))
       => /\ pc \in {"confirm", "submit"} => is_first_run
          /\ pc = "done" => (Failed \/ entries = <<>>)
    /\ (FirstRun /\ pc = "done" /\ result = "Ok") => first_run_completed[cur]
    /\ SubsequentRun => first_run_completed[cur]
C29_StoreStep ==
    \A s \in DOMAIN first_run_completed :
        (~first_run_completed'[s] /\ submitted_urls'[s] # submitted_urls[s])
            => /\ pc \in {"idle", "done"}
               /\ pc' \in {"confirm", "submit"}
               /\ cur' = s
               /\ is_first_run'
C29_OnlyUnfinishedFirstRun == [](C29_UnfinishedState) /\ [][C29_StoreStep]_vars
\* a first-run pass whose submission failed: records under an unset flag
C29_Witness ==
    /\ FirstRun
    /\ pc = "done"
    /\ Failed
    /\ requests # <<>>
    /\ ~first_run_completed[cur]
    /\ C29_HasRecords(cur)

\* C30: with an -e filter only the configured sources whose id is listed
\* are processed: the sources whose processing (fetch first) has started
\* are listed ones, the source a request is sent for is a listed one, and
\* no step changes the records or the flag of a source that is not listed
\* (nor of any source but the one being processed); listed ids that match
\* no source are ignored when one matches (the run then reports neither
\* selection error, and a run that returns Ok has processed exactly the
\* listed configured sources); and when no listed id matches a source, or
\* no source is configured, the run ends with the selection error with no
\* source processed, no request sent, and the store as it was.
C30_Listed == IF entry_filter.some THEN Range(entry_filter.ids) ELSE DOMAIN source_type
C30_SelectionErrors == {"No sources configured", "No sources found with IDs"}
C30_State ==
    /\ Range(run_log) \subseteq C30_Listed \cap DOMAIN source_type
    /\ pc \in {"confirm", "submit", "done"} => cur \in C30_Listed
    /\ requests # <<>> => cur \in C30_Listed
    /\ pc = "exited" =>
          /\ result = "No sources configured" <=> DOMAIN source_type = {}
          /\ result = "No sources found with IDs" <=>
                (DOMAIN source_type # {} /\ C30_Listed \cap DOMAIN source_type = {})
          /\ result \in C30_SelectionErrors => (run_log = <<>> /\ requests = <<>>)
          /\ result = "Ok" => Range(run_log) = C30_Listed \cap DOMAIN source_type
C30_Step ==
    /\ \A s \in DOMAIN source_type :
          (submitted_urls'[s] # submitted_urls[s]
              \/ first_run_completed'[s] # first_run_completed[s])
          => (s = cur' /\ s \in Range(run_log') /\ s \in C30_Listed')
    /\ DOMAIN source_type' = DOMAIN source_type
    /\ pc = "idle" => store' = store
C30_OnlyListed == [](C30_State) /\ [][C30_Step]_vars
\* sources 1 and 2 are configured and -e 2 is given: only source 2 was
\* processed, a submission was sent for it, and the run returned Ok
C30_Witness ==
    /\ DOMAIN source_type = {1, 2}
    /\ entry_filter = [some |-> TRUE, ids |-> <<2>>]
    /\ run_log = <<2>>
    /\ pc = "exited"
    /\ result = "Ok"
    /\ requests # <<>>
\* only source 1 is configured and -e 2,1 is given: id 2 was ignored
C30_WitnessIgnored ==
    /\ DOMAIN source_type = {1}
    /\ entry_filter = [some |-> TRUE, ids |-> <<2, 1>>]
    /\ run_log = <<1>>
    /\ pc = "exited"
    /\ result = "Ok"
\* only source 1 is configured and -e 2 is given: the run failed at once
C30_WitnessNoMatch ==
    /\ DOMAIN source_type = {1}
    /\ entry_filter = [some |-> TRUE, ids |-> <<2>>]
    /\ pc = "exited"
    /\ result = "No sources found with IDs"

\* urls recorded for source s in the table
RecordedUrls(rows, s) == {u \in Urls : RowsOf(rows, s, u) # {}}

\* C23: in every state of the database the table holds at most one row per
\* (source_id, url), and the per-source mapping read by the runs is that
\* table; recording a url that is already recorded for the source replaces
\* the marker of its row and adds no row, recording another url inserts
\* one row, and either way the rows of every other (source, url) pair are
\* as they were.
C23_Unique ==
    \A r \in BagToSet(submitted_urls_rows) :
        /\ submitted_urls_rows[r] = 1
        /\ RowsOf(submitted_urls_rows, r.source_id, r.url) = {r}
C23_View ==
    /\ DOMAIN submitted_urls = DOMAIN source_type
    /\ \A s \in DOMAIN source_type : \A u \in Urls :
          submitted_urls[s][u] =
              IF RowsOf(submitted_urls_rows, s, u) = {} THEN NoRow
              ELSE (CHOOSE r \in RowsOf(submitted_urls_rows, s, u) : TRUE).last_modified
C23_UpsertStep ==
    last_write' \in {"insert", "update"} =>
        \E s \in DOMAIN source_type, u \in Urls :
            /\ Cardinality(RowsOf(submitted_urls_rows', s, u)) = 1
            /\ \A s2 \in DbIds, u2 \in Urls :
                  <<s2, u2>> # <<s, u>> =>
                      RowsOf(submitted_urls_rows', s2, u2) = RowsOf(submitted_urls_rows, s2, u2)
            /\ IF RowsOf(submitted_urls_rows, s, u) # {}
               THEN /\ last_write' = "update"
                    /\ BagCardinality(submitted_urls_rows') = BagCardinality(submitted_urls_rows)
               ELSE /\ last_write' = "insert"
                    /\ BagCardinality(submitted_urls_rows') = BagCardinality(submitted_urls_rows) + 1
C23_OneRowPerUrl == [](C23_Unique /\ C23_View) /\ [][C23_UpsertStep]_vars
\* url u1 of source 1 has just been recorded again, with marker d2, while
\* u2 of source 1 and u1 of source 2 are recorded too
C23_Witness ==
    /\ last_write = "update"
    /\ DOMAIN source_type = {1, 2}
    /\ [source_id |-> 1, url |-> "u1", last_modified |-> "d2"] \in BagToSet(submitted_urls_rows)
    /\ RecordedUrls(submitted_urls_rows, 1) = {"u1", "u2"}
    /\ RecordedUrls(submitted_urls_rows, 2) = {"u1"}

\* C24: no row of the table refers to a source that does not exist; the
\* step that deletes a source leaves no row of it, and leaves the rows, the
\* flag, the type and the settings of every source that remains as they
\* were; an id is not given again, so a new source starts without rows.
C24_NoDangling ==
    \A r \in BagToSet(submitted_urls_rows) : r.source_id \in DOMAIN source_type
C24_RemoveStep ==
    /\ \A id \in DOMAIN source_type \ DOMAIN source_type' :
          /\ \A r \in BagToSet(submitted_urls_rows') : r.source_id # id
          /\ \A s \in DOMAIN source_type' :
                /\ s \in DOMAIN source_type
                /\ \A u \in Urls :
                      RowsOf(submitted_urls_rows', s, u) = RowsOf(submitted_urls_rows, s, u)
                /\ submitted_urls'[s] = submitted_urls[s]
                /\ first_run_completed'[s] = first_run_completed[s]
                /\ source_type'[s] = source_type[s]
                /\ source_cfg'[s] = source_cfg[s]
    /\ \A id \in DOMAIN source_type' \ DOMAIN source_type :
          /\ RecordedUrls(submitted_urls_rows', id) = {}
          /\ \A s \in DOMAIN source_type : id > s
C24_RemoveCascades == [](C24_NoDangling) /\ [][C24_RemoveStep]_vars
\* source 1, which had records, has just been removed; source 2 remains
\* with its flag set and both its urls recorded
C24_Witness ==
    /\ last_write = "delete"
    /\ DOMAIN source_type = {2}
    /\ first_run_completed[2]
    /\ RecordedUrls(submitted_urls_rows, 2) = Urls

\* C25: no step makes the set of urls recorded for a source that exists
\* before and after the step smaller, whether the step records a url, sets
\* the flag, edits the source, or adds, removes or clears other sources;
\* rows are deleted only in a step that deletes their source.
C25_Step ==
    /\ \A s \in DOMAIN source_type \cap DOMAIN source_type' :
          /\ RecordedUrls(submitted_urls_rows, s) \subseteq RecordedUrls(submitted_urls_rows', s)
          /\ \A u \in Urls : submitted_urls[s][u] # NoRow => submitted_urls'[s][u] # NoRow
    /\ \A r \in BagToSet(submitted_urls_rows) :
          RowsOf(submitted_urls_rows', r.source_id, r.url) = {}
              => r.source_id \notin DOMAIN source_type'
C25_NeverShrinks == [][C25_Step]_vars
\* source 1 has been edited (it is now a sitemap with another key) and
\* source 2 has been removed; both urls of source 1 are still recorded
C25_Witness ==
    /\ sqlite_sequence = 2
    /\ DOMAIN source_type = {1}
    /\ source_type[1] = "sitemap"
    /\ source_cfg[1].api_key = "key2"
    /\ first_run_completed[1]
    /\ RecordedUrls(submitted_urls_rows, 1) = Urls
    /\ last_write = "none"

\* C26: once a database write of the run has failed, the call on that
\* source has returned the write's error (never Ok, and the handler is
\* neither at a prompt nor submitting), and from then on nothing is written
\* or sent and no further source is processed: the error ends the run.
C26_Propagated ==
    write_failed =>
        /\ pc \in {"done", "exited"}
        /\ result = WriteError
C26_EndsAtWrite ==
    write_failed =>
        /\ store' = store
        /\ requests' = requests
        /\ run_log' = run_log
        /\ write_failed'
C26_WriteErrorsPropagate == [](C26_Propagated) /\ [][C26_EndsAtWrite]_vars
\* sources 1 and 2 were selected; the submission for source 1 was accepted,
\* a write after it failed, and the run returned that error without
\* processing source 2
C26_Witness ==
    /\ write_failed
    /\ pc = "exited"
    /\ result = WriteError
    /\ sources = <<1, 2>>
    /\ run_log = <<1>>
    /\ requests # <<>>
\* the store loop of a first run failed
C26_WitnessStore ==
    /\ write_failed
    /\ pc = "done"
    /\ is_first_run
    /\ requests = <<>>
    /\ answer = "none"
\* the flag write after a declined first-run prompt failed
C26_WitnessMark ==
    /\ write_failed
    /\ pc = "done"
    /\ is_first_run
    /\ answer = "no"
    /\ ~first_run_completed[cur]

\* C27: a dry run sends no request and is never at a prompt or submitting,
\* and no step of it changes a source's records, first-run flag or type,
\* for sources in first-run mode and in subsequent-run mode alike.
C27_NoRequest ==
    dry_run =>
        /\ requests = <<>>
        /\ pc \notin {"confirm", "submit"}
        /\ to_submit = <<>>
        /\ ~write_failed
C27_NoWrite == (dry_run \/ dry_run') => store' = store
C27_DryRunReadOnly == [](C27_NoRequest) /\ [][C27_NoWrite]_vars
\* a dry run over source 1, in first-run mode, and source 2, in
\* subsequent-run mode with a modified url to report, has returned Ok
C27_Witness ==
    /\ dry_run
    /\ pc = "exited"
    /\ result = "Ok"
    /\ run_log = <<1, 2>>
    /\ ~first_run_completed[1]
    /\ first_run_completed[2]
    /\ ~is_first_run
    /\ modified_urls # <<>>

\* C32: when the traversal has failed on the fetch of a document, the
\* returned error names the reference whose fetch failed and, when a
\* response was received, its status.
C32_FailedCall == sm_calls[Len(sm_calls)]
C32_ErrorNamesReferenceAndStatus ==
    sm_state = "Err" =>
        /\ sm_error.url = C32_FailedCall.url
        /\ web[C32_FailedCall.url].status # 0 =>
              sm_error.status = web[C32_FailedCall.url].status
\* the part that holds: the status of a response that is not a success is
\* in the error
C32_ErrorNamesStatus ==
    sm_state = "Err" =>
        sm_error.status = web[C32_FailedCall.url].status

\* What one <url> block contributes: nothing without a non-blank location,
\* else one entry with the location text unpadded and the marker text
\* unpadded, absent when the block has no <lastmod> text.
C31_Unpadded(text) ==
    CASE text = " u1 " -> "u1"
      [] text = " d1 " -> "d1"
      [] text = " " -> ""
      [] OTHER -> text
C31_EntryOf(block) ==
    IF block.loc \in {None, " "} THEN <<>>
    ELSE <<[url |-> C31_Unpadded(block.loc),
            date |-> IF block.lastmod = None THEN None ELSE C31_Unpadded(block.lastmod)]>>
RECURSIVE C31_Expected(_)
C31_Expected(blocks) ==
    IF blocks = <<>> THEN <<>>
    ELSE C31_EntryOf(Head(blocks)) \o C31_Expected(Tail(blocks))
C31_Distinct(es) ==
    SelectSeq([i \in 1..Len(es) |-> [e |-> es[i], first |-> \A j \in 1..(i - 1) : es[j].url # es[i].url]],
              LAMBDA r : r.first)
\* C31: extraction from a url-set document is tolerant: a <url> block
\* without a usable location is skipped and does not fail the document, a
\* block without a modification marker yields an entry whose marker is
\* absent, a block with one yields that marker, in document order; a root
\* url set so extracted ends the traversal with Ok and exactly these entries.
C31_TolerantExtraction ==
    /\ \A d \in Docs : parse_sitemap(web[d]) = C31_Expected(web[d].url_blocks)
    /\ (Len(sm_calls) = 1 /\ ~web[Root].sitemapindex) =>
          /\ sm_state = "Ok"
          /\ sm_error = NoError
          /\ Len(sm_entries) = Len(C31_Distinct(C31_Expected(web[Root].url_blocks)))
          /\ \A i \in 1..Len(sm_entries) :
                sm_entries[i] = C31_Distinct(C31_Expected(web[Root].url_blocks))[i].e
\* A root url set whose first block has no location and whose second block
\* has a location and no marker has been extracted.
C31_Witness ==
    /\ ~web[Root].sitemapindex
    /\ web[Root].url_blocks = <<[loc |-> None, lastmod |-> " d1 "], [loc |-> " u1 ", lastmod |-> None]>>
    /\ sm_state = "Ok"
    /\ sm_entries = <<[url |-> "u1", date |-> None]>>

\* C33: a fetched document is handled as an index exactly when its text
\* holds the "<sitemapindex" token: with the token its references are
\* queued in order one level deeper and none of its <url> blocks becomes an
\* entry; without it its <url> blocks are extracted and none of its
\* <sitemap> references is followed.
C33_Step ==
    (sm_state = "running" /\ sm_calls' # sm_calls /\ SmOk(Head(sm_stack).url)
        /\ Head(sm_stack).depth <= MAX_DEPTH) =>
        LET call == Head(sm_stack)
            doc == web[call.url]
        IN  IF doc.sitemapindex
            THEN /\ sm_entries' = sm_entries
                 /\ sm_seen' = sm_seen
                 /\ sm_stack' = [i \in 1..Len(doc.sitemap_locs) |->
                                    [url |-> doc.sitemap_locs[i], depth |-> call.depth + 1]]
                                 \o Tail(sm_stack)
            ELSE /\ sm_stack' = Tail(sm_stack)
                 /\ sm_seen' = sm_seen \cup {e.url : e \in Range(C31_Expected(doc.url_blocks))}
                 /\ {e.url : e \in Range(sm_entries')} = sm_seen'
C33_DispatchByToken == [][C33_Step]_vars
\* A root with the token, a <url> block and two references has been
\* traversed: both references were fetched in order, the reference held by
\* the token-less second document was not, and the root's block gave no entry.
C33_Witness ==
    /\ web[Root].sitemapindex
    /\ web[Root].sitemap_locs = <<"s3", "s2">>
    /\ web[Root].url_blocks = <<[loc |-> " u1 ", lastmod |-> " d1 "]>>
    /\ ~web["s2"].sitemapindex /\ web["s2"].sitemap_locs = <<"s3">>
    /\ sm_state = "Ok"
    /\ [i \in 1..Len(sm_calls) |-> sm_calls[i].url] = <<"s1", "s3", "s2">>
    /\ sm_entries = <<[url |-> "u2", date |-> None], [url |-> "u1", date |-> None]>>

\* The first run in progress was declined at its prompt and has returned.
C34_Declined == pc = "done" /\ is_first_run /\ answer = "no"
\* the marker of the last fetched entry of url u
C34_LastDate(u) ==
    entries[CHOOSE i \in 1..Len(entries) :
                entries[i].url = u /\ \A j \in (i + 1)..Len(entries) : entries[j].url # u].date
C34_DeclineState ==
    C34_Declined =>
        /\ result = "Ok"
        /\ requests = <<>>
        /\ first_run_completed[cur]
        /\ \A i \in 1..Len(entries) :
              submitted_urls[cur][entries[i].url] = C34_LastDate(entries[i].url)
\* A run of a source whose flag is set starts: it is not a first run, and
\* an item it is about to submit for a recorded url is a fetched entry
\* whose marker differs from the recorded one.
C34_LaterRun ==
    (pc \in {"idle", "done"} /\ pc' # "idle" /\ result' # "Failed to fetch"
        /\ first_run_completed[cur']) =>
        /\ ~is_first_run'
        /\ requests' = <<>>
        /\ \A i \in 1..Len(to_submit') :
              LET t == to_submit'[i]
                  recorded == submitted_urls[cur'][t.url]
              IN  recorded # NoRow =>
                    /\ t.reason.kind = "Modified"
                    /\ t.reason.date # recorded
                    /\ \E k \in 1..Len(entries') :
                          entries'[k] = [url |-> t.url, date |-> t.reason.date]
\* the run that follows the declined first run on the same fetched entries
C34_NextRun ==
    (C34_Declined /\ pc' # "idle" /\ entries' = entries /\ <<pc, cur, answer>>' # <<pc, cur, answer>>) =>
        /\ ~is_first_run'
        /\ \A i \in 1..Len(to_submit') :
              /\ to_submit'[i].reason.kind = "Modified"
              /\ to_submit'[i].reason.date # submitted_urls[cur][to_submit'[i].url]
\* C34: a declined interactive first run records every fetched entry, sends
\* no request and sets the first-run flag; every later run of the source is
\* then a subsequent run, which submits a recorded url only for a fetched
\* entry whose marker differs from the recorded one.
C34_DeclinedFirstRun ==
    /\ [](C34_DeclineState)
    /\ [][C34_LaterRun /\ C34_NextRun]_vars
\* a declined first run of two urls has returned
C34_Witness ==
    /\ C34_Declined
    /\ ~unattended
    /\ Cardinality(Range(UrlsOf(entries))) = 2
    /\ requests = <<>>
    /\ first_run_completed[cur]

\* The first run in progress has returned the error of its submission.
C35_Failed == pc = "done" /\ is_first_run /\ result \notin {"Ok", "running"}
\* The flag of a source is set only by the step that ends a first run of
\* that source with Ok, after a declined prompt without any request or
\* after the last batch of the full fetched set was accepted.
C35_SetStep ==
    \A s \in DOMAIN first_run_completed :
        (~first_run_completed[s] /\ first_run_completed'[s]) =>
            /\ s = cur /\ is_first_run
            /\ pc' = "done" /\ result' = "Ok"
            /\ \/ ~unattended /\ answer' = "no" /\ requests' = <<>>
               \/ /\ unattended \/ answer' = "yes"
                  /\ is_success(last_status')
                  /\ Flatten(requests') = UrlsOf(entries)
\* After a failed first-run submission the flag is unset and every fetched
\* url is recorded.
C35_FailedState ==
    C35_Failed =>
        /\ ~first_run_completed[cur]
        /\ requests # <<>>
        /\ \A i \in 1..Len(entries) : submitted_urls[cur][entries[i].url] # NoRow
\* The run that follows the failed one is a first run again: unattended it
\* goes to the submission of the full fetched set, interactive it prompts.
C35_NextRun ==
    (C35_Failed /\ pc' # "idle" /\ <<pc, requests>>' # <<pc, requests>>) =>
        /\ cur' = cur /\ entries' = entries
        /\ is_first_run'
        /\ requests' = <<>>
        /\ IF unattended' THEN pc' = "submit" /\ to_submit' = AllNew(entries')
                          ELSE pc' = "confirm"
\* A first run that submits, submits every fetched entry as New, whatever
\* is recorded, and on success has sent every fetched url.
C35_FullSet ==
    /\ (is_first_run /\ pc = "submit") => to_submit = AllNew(entries)
    /\ (is_first_run /\ pc = "done" /\ result = "Ok" /\ answer # "no") =>
            Flatten(requests) = UrlsOf(entries)
\* C35: the first-run flag is set only at the end of a first run that was
\* declined or whose submission fully succeeded; a failed first-run
\* submission leaves the flag unset with every fetched url recorded, and
\* the next run is a first run again that (accepted or unattended) submits
\* the full fetched set, the urls of already accepted batches included.
C35_FlagOnlyAfterDeclineOrSuccess ==
    /\ [](C35_FailedState /\ C35_FullSet)
    /\ [][C35_SetStep /\ C35_NextRun]_vars
\* a first run whose first batch was accepted and whose second batch failed
C35_Witness ==
    /\ C35_Failed
    /\ Len(requests) = 2
    /\ ~first_run_completed[cur]
    /\ \A i \in 1..Len(entries) : submitted_urls[cur][entries[i].url] # NoRow

\* the urls of the items of kind k in a classified list
C36_UrlsOfKind(ts, k) ==
    LET of_kind(t) == t.reason.kind = k
    IN  UrlsOf(SelectSeq(ts, of_kind))
\* C36: for the entries fetched and the records read by a subsequent run,
\* the New list and the Modified list that dry_run_source computes from
\* them are, as url sequences, the New items and the Modified items of the
\* run's submission list (and the dry run reports the recorded marker and
\* the marker the run submits).
C36_DryRunAgrees ==
    SubsequentRun =>
        LET dry_new == dry_new_urls(stored_urls, entries)
            dry_modified == dry_modified_urls(stored_urls, entries)
            modified == SelectSeq(to_submit, LAMBDA t : t.reason.kind = "Modified")
        IN  /\ UrlsOf(dry_new) = C36_UrlsOfKind(to_submit, "New")
            /\ [i \in 1..Len(dry_modified) |-> dry_modified[i].entry.url]
                  = C36_UrlsOfKind(to_submit, "Modified")
            /\ Len(dry_new) + Len(dry_modified) = Len(to_submit)
            /\ \A i \in 1..Len(dry_modified) :
                  /\ dry_modified[i].entry.date = modified[i].reason.date
                  /\ dry_modified[i].stored_date = stored_urls[modified[i].url]
\* a subsequent run that has submitted a New url and a Modified entry of a
\* url recorded without marker, and has left one fetched entry out
C36_Witness ==
    /\ SubsequentRun
    /\ pc = "done" /\ result = "Ok"
    /\ C36_UrlsOfKind(to_submit, "New") # <<>>
    /\ C36_UrlsOfKind(to_submit, "Modified") # <<>>
    /\ \E i \in 1..Len(to_submit) :
          to_submit[i].reason.kind = "Modified" /\ stored_urls[to_submit[i].url] = None
    /\ Len(to_submit) < Len(entries)

\* The run in progress is past its prompt, if it has one: it is submitting
\* or has submitted.
C37_Submitting == pc = "submit" \/ (pc = "done" /\ requests # <<>>)
\* What a run that submits holds, whatever its mode: the submission list is
\* the full fetched set (first run) or the classification of the fetched
\* entries against the records read (subsequent run), and the requests
\* sent so far are the first chunks of that list in their wire shape.
C37_RunState ==
    C37_Submitting =>
        /\ unattended \/ answer = "yes"
        /\ to_submit = IF is_first_run THEN AllNew(entries)
                       ELSE Classify(stored_urls, entries)
        /\ requests = [k \in 1..batch_idx |-> SubmitRequest(Cfg, chunks(to_submit)[k])]
        /\ pc = "submit" =>
              /\ first_run_completed[cur] = ~is_first_run
              /\ ~is_first_run => submitted_urls[cur] = stored_urls
\* A first run starts, in either mode: every fetched entry is stored on
\* top of the records and the flag is left alone.
C37_StartStep ==
    (pc \in {"idle", "done"} /\ pc' \in {"confirm", "submit"} /\ is_first_run') =>
        /\ submitted_urls' = [submitted_urls EXCEPT ![cur'] = StoreAll(@, entries')]
        /\ first_run_completed' = first_run_completed
\* A request is answered, in either mode: the next chunk was sent; an
\* error status ends the run with the store unchanged, a success on the
\* last chunk ends it with the flag set (first run) or the submitted
\* entries recorded (subsequent run).
C37_SubmitStep ==
    (pc = "submit" /\ requests' # requests) =>
        LET ok == SubmitOutcome(last_status') = "Ok"
            more == batch_idx + 1 < Len(chunks(to_submit))
        IN  /\ requests' = Append(requests, SubmitRequest(Cfg, chunks(to_submit)[batch_idx + 1]))
            /\ IF ~ok
               THEN /\ pc' = "done" /\ result' = SubmitOutcome(last_status')
                    /\ UNCHANGED store
               ELSE IF more
               THEN pc' = "submit" /\ UNCHANGED store
               ELSE /\ pc' = "done" /\ result' = "Ok"
                    /\ first_run_completed' = [first_run_completed EXCEPT ![cur] = TRUE]
                    /\ submitted_urls' =
                          IF is_first_run THEN submitted_urls
                          ELSE [submitted_urls EXCEPT ![cur] = CommitAll(@, to_submit, entries)]
\* C37: an unattended run and an interactive run whose prompt is answered
\* yes are the same function of the fetched entries, the persisted state
\* and the response statuses: the same submission list, the same requests
\* in the same order, and the same records and flag at the end, for first
\* runs and subsequent runs.
C37_UnattendedIsAllYes ==
    /\ [](C37_RunState)
    /\ [][C37_StartStep /\ C37_SubmitStep]_vars
\* an unattended subsequent run has sent two batches and recorded them
C37_Witness ==
    /\ unattended
    /\ ~is_first_run
    /\ pc = "done" /\ result = "Ok"
    /\ Len(requests) = 2
    /\ submitted_urls[cur] # stored_urls

\* the sources a run selects, and whether one of them lacks its key or host
C38_Selected ==
    (IF entry_filter.some THEN Range(entry_filter.ids) ELSE DOMAIN source_type)
        \cap DOMAIN source_type
C38_Invalid ==
    \E s \in C38_Selected : source_cfg[s].api_key = "" \/ source_cfg[s].host = ""
C38_State ==
    pc # "idle" =>
        /\ C38_Invalid =>
              /\ pc = "exited"
              /\ result = "missing required configuration"
              /\ run_log = <<>>
              /\ requests = <<>>
              /\ sm_calls = <<>>
        /\ result = "missing required configuration" => C38_Invalid
C38_Step ==
    /\ (pc = "idle" /\ pc' # "idle") => (store' = store /\ dbvars' = dbvars)
    /\ C38_Invalid' => (store' = store /\ source_cfg' = source_cfg)
\* C38: the configuration of all selected sources is validated before any
\* of them is processed: when a selected source has an empty api_key or an
\* empty host the run ends with the configuration error, no source (a
\* correctly configured one with a smaller id included) is fetched or
\* submitted, and the persisted state is as it was.
C38_ValidatedBeforeProcessing == [](C38_State) /\ [][C38_Step]_vars
\* sources 1 and 2 are selected, 1 is configured, 2 has no host: the run
\* has ended with the error before source 1 was processed
C38_Witness ==
    /\ DOMAIN source_type = {1, 2}
    /\ ~entry_filter.some
    /\ ~missing_required_configuration(1)
    /\ source_cfg[2].host = ""
    /\ pc = "exited"
    /\ result = "missing required configuration"
    /\ run_log = <<>>

\* A set flag stays set while its source exists, and the source (with the
\* flag) goes only together with its sources row and its url rows.
C39_Monotone ==
    \A s \in DOMAIN first_run_completed :
        first_run_completed[s] =>
            IF s \in DOMAIN first_run_completed'
            THEN first_run_completed'[s]
            ELSE /\ s \notin DOMAIN source_type'
                 /\ RecordedUrls(submitted_urls_rows', s) = {}
\* A step that changes the type or the settings of a source that stays
\* leaves every flag and every url row as it was.
C39_Edit ==
    (DOMAIN source_type' = DOMAIN source_type
        /\ <<source_type, source_cfg>>' # <<source_type, source_cfg>>) =>
        /\ first_run_completed' = first_run_completed
        /\ submitted_urls_rows' = submitted_urls_rows
        /\ submitted_urls' = submitted_urls
\* C39: the first-run flag is monotone: once set for a source no write of
\* a run and no edit of the source unsets it, and an edit leaves the
\* source's url records unchanged; the flag goes only when the source is
\* removed or the database is cleared.
C39_FlagMonotone == [][C39_Monotone /\ C39_Edit]_vars
\* sources 1 and 2 exist; source 2 has its flag set and a url recorded and
\* carries the edited type and key
C39_Witness ==
    /\ DOMAIN source_type = {1, 2}
    /\ source_type[2] = "sitemap"
    /\ source_cfg[2].api_key = "key2"
    /\ first_run_completed[2]
    /\ ~first_run_completed[1]
    /\ RecordedUrls(submitted_urls_rows, 2) # {}

\* process_source is called on the next source and its fetch succeeds.
C40_Fetched == run_log' # run_log /\ result' # "Failed to fetch" /\ ~write_failed'
\* A fetch that succeeds with no entry: the call returns Ok with nothing
\* sent and the store and the table as they were; a fetch with entries on
\* a source whose flag is unset is handled as a first run.
C40_FetchStep ==
    C40_Fetched =>
        IF entries' = <<>>
        THEN /\ pc' = "done" /\ result' = "Ok"
             /\ requests' = <<>>
             /\ to_submit' = <<>>
             /\ store' = store
             /\ dbvars' = dbvars
        ELSE is_first_run' = ~first_run_completed[cur']
\* After an empty fetch the loop goes on: the run returns only when no
\* source is left, and the next step otherwise processes the next source.
C40_Continues ==
    (pc = "done" /\ entries = <<>> /\ result = "Ok") =>
        /\ idx < Len(sources) => (pc' # "exited" /\ (pc' # pc => run_log' # run_log))
        /\ pc' = "exited" => (idx = Len(sources) /\ result' = "Ok")
\* C40: a fetch that succeeds with zero entries changes nothing for the
\* source (no request, no record, flag not set), so a source with only
\* empty fetches behind it is still a first run on its first non-empty
\* fetch; the run then goes on with the next source.
C40_EmptyFetchNoEffect ==
    /\ []((pc = "done" /\ entries = <<>> /\ result = "Ok") => (requests = <<>> /\ AtLoopTop))
    /\ [][C40_FetchStep /\ C40_Continues]_vars
\* source 1 was processed and is as before its first run (its fetch was
\* empty); the run went on to source 2 and has submitted for it
C40_Witness ==
    /\ run_log = <<1, 2>>
    /\ ~first_run_completed[1]
    /\ submitted_urls[1] = EmptyMap
    /\ cur = 2
    /\ pc = "done" /\ result = "Ok"
    /\ requests # <<>>

====
